---------------------------- MODULE Spec2Model ----------------------------
(***************************************************************************)
(* A model of github.com/frk/route: the radix trie behind Router (insert   *)
(* and lookup), the per-node method table, and the Router wrapper          *)
(* (Handle, SetNotFound, Handler).                                         *)
(*                                                                         *)
(* Go strings are TLA+ strings; a byte is a string of length one and the   *)
(* zero byte is NUL.  Go's 0-based s[i] is Byte(s, i + 1).  A *node is an  *)
(* index into the sequence `nodes` (0 is the nil pointer); paramNode and   *)
(* catchallNode are owned by exactly one node and are kept inline.         *)
(***************************************************************************)
EXTENDS Naturals, Integers, Sequences, FiniteSets, TLC

VARIABLES
    nodes,      \* the heap of trie nodes; nodes[Root] is Router.root
    hosts,      \* Router.hosts
    handle404,  \* Router.handle404
    resp,       \* the outcome of the last call made on the Router
    registered, \* history: the (method, pattern, handler) of every Handle that returned
    pool,       \* the patterns, methods, hosts and paths the environment uses
    calls,      \* number of Handle calls made so far
    params,     \* the Params value the accessors of part_001 are called on
    ctxs,       \* the heap of *ctx values made by Router.ctxpool.New
    ctxpool,    \* Router.ctxpool: the contexts a Get can hand out
    reqs        \* the ServeHTTP calls: where each stands and its local variables

vars == <<nodes, hosts, handle404, resp, registered, pool, calls, params, ctxs, ctxpool, reqs>>

-----------------------------------------------------------------------------
(* Bounds of the model. *)

MaxHandles == 3

MaxPathLen == 4

-----------------------------------------------------------------------------
(* Strings and bytes. *)

NUL == ""

Nil == 0

Root == 1

Byte(s, i) == SubSeq(s, i, i)

From(s, i) == SubSeq(s, i, Len(s))

Upto(s, n) == SubSeq(s, 1, n)

\* strings.IndexByte(s, c), 1-based; 0 when c does not occur (Go's -1).
IndexByte(s, c) ==
    IF \E i \in 1..Len(s) : Byte(s, i) = c
    THEN CHOOSE i \in 1..Len(s) :
            /\ Byte(s, i) = c
            /\ \A j \in 1..(i - 1) : Byte(s, j) # c
    ELSE 0

HasPrefix(s, p) == Len(s) >= Len(p) /\ Upto(s, Len(p)) = p

min(x, y) == IF x < y THEN x ELSE y

\* cpl: the length of the longest common prefix of a and b.
cpl(a, b) ==
    LET j == min(Len(a), Len(b))
        D == {i \in 1..j : Byte(a, i) # Byte(b, i)}
    IN  IF D = {} THEN j
        ELSE (CHOOSE i \in D : \A k \in D : i <= k) - 1

\* countParams, in uint8 arithmetic.
RECURSIVE countParamsFrom(_, _, _)
countParamsFrom(pattern, i, n) ==
    IF i > Len(pattern) THEN n
    ELSE IF Byte(pattern, i) = "*" THEN (n + 1) % 256
    ELSE IF Byte(pattern, i) = "{" THEN countParamsFrom(pattern, i + 1, (n + 1) % 256)
    ELSE countParamsFrom(pattern, i + 1, n)

countParams(pattern) == countParamsFrom(pattern, 1, 0)

\* strings.Split(s, ","): the tokens between the commas, empty ones included.
RECURSIVE SplitFrom(_, _, _)
SplitFrom(s, i, cur) ==
    IF i > Len(s) THEN <<cur>>
    ELSE IF Byte(s, i) = "," THEN <<cur>> \o SplitFrom(s, i + 1, "")
    ELSE SplitFrom(s, i + 1, cur \o Byte(s, i))

Split(s) == SplitFrom(s, 1, "")

\* The byte order sort.Strings compares with, on the bytes method names use.
ByteOrder == "*ADEGLOPSTU"

Ord(c) == IndexByte(ByteOrder, c)

RECURSIVE StrLess(_, _)
StrLess(a, b) ==
    IF a = "" THEN b # ""
    ELSE IF b = "" THEN FALSE
    ELSE IF Byte(a, 1) = Byte(b, 1) THEN StrLess(From(a, 2), From(b, 2))
    ELSE Ord(Byte(a, 1)) < Ord(Byte(b, 1))

\* sort.Strings over the set S of distinct strings.
RECURSIVE SortStrings(_)
SortStrings(S) ==
    IF S = {} THEN << >>
    ELSE LET m == CHOOSE x \in S : \A y \in S \ {x} : StrLess(x, y)
         IN  <<m>> \o SortStrings(S \ {m})

\* strings.Join(seq, ",").
RECURSIVE Join(_)
Join(seq) ==
    IF seq = << >> THEN ""
    ELSE IF Len(seq) = 1 THEN seq[1]
    ELSE seq[1] \o "," \o Join(Tail(seq))

-----------------------------------------------------------------------------
(* Errors.  NoErr is Go's nil error. *)

NoErr == [typ |-> "nil", a |-> "", b |-> ""]

routeError(typ, a, b) == [typ |-> typ, a |-> a, b |-> b]

NilHandler == "nil"

-----------------------------------------------------------------------------
(* nodeHandler: the method table of a terminal position. *)

EmptyMap == [m \in {} |-> NilHandler]

newNodeHandler == [isSet |-> FALSE, hm |-> EmptyMap, methods |-> ""]

\* The loop of nodeHandler.set over the tokens ms[i..]: the map so far and
\* the error that stopped the loop.
RECURSIVE setTokens(_, _, _, _)
setTokens(hm, ms, i, h) ==
    IF i > Len(ms) THEN [hm |-> hm, err |-> NoErr]
    ELSE IF ms[i] = "" THEN [hm |-> hm, err |-> routeError("missingMethod", "", "")]
    ELSE IF ms[i] \in DOMAIN hm
         THEN [hm |-> hm, err |-> routeError("errMethodConflict", ms[i], "")]
    ELSE setTokens((ms[i] :> h) @@ hm, ms, i + 1, h)

\* nodeHandler.set with the empty tokens of the list skipped instead of
\* refused.
set_SkipsEmptyTokens(nh, method, h) ==
    LET r == setTokens(nh.hm, SelectSeq(Split(method), LAMBDA m : m # ""), 1, h)
    IN  IF r.err # NoErr
        THEN [nh |-> [nh EXCEPT !.hm = r.hm], err |-> r.err]
        ELSE [nh |-> [isSet |-> TRUE,
                      hm |-> r.hm,
                      methods |-> Join(SortStrings(DOMAIN r.hm \ {"*"}))],
              err |-> NoErr]

\* nodeHandler.set: the table after the call and the error returned.  The
\* entries written before a failing token stay in the map.
set(nh, method, h) ==
    LET r == setTokens(nh.hm, Split(method), 1, h)
    IN  IF r.err # NoErr
        THEN [nh |-> [nh EXCEPT !.hm = r.hm], err |-> r.err]
        ELSE [nh |-> [isSet |-> TRUE,
                      hm |-> r.hm,
                      methods |-> Join(SortStrings(DOMAIN r.hm \ {"*"}))],
              err |-> NoErr]

\* nodeHandler.ServeHTTP with the two lookups of lines 349-352 swapped: the
\* "*" entry is consulted before the entry of the request's method.
nodeHandlerServe_StarFirst(nh, m) ==
    IF "*" \in DOMAIN nh.hm THEN [code |-> 200, handler |-> nh.hm["*"], allow |-> ""]
    ELSE IF m \in DOMAIN nh.hm THEN [code |-> 200, handler |-> nh.hm[m], allow |-> ""]
    ELSE IF m # "OPTIONS" THEN [code |-> 405, handler |-> NilHandler, allow |-> nh.methods]
    ELSE [code |-> 200, handler |-> NilHandler, allow |-> nh.methods]

\* nodeHandler.ServeHTTP: what runs for a request with method m.
nodeHandlerServe(nh, m) ==
    IF m \in DOMAIN nh.hm THEN [code |-> 200, handler |-> nh.hm[m], allow |-> ""]
    ELSE IF "*" \in DOMAIN nh.hm THEN [code |-> 200, handler |-> nh.hm["*"], allow |-> ""]
    ELSE IF m # "OPTIONS" THEN [code |-> 405, handler |-> NilHandler, allow |-> nh.methods]
    ELSE [code |-> 200, handler |-> NilHandler, allow |-> nh.methods]

-----------------------------------------------------------------------------
(* The trie. *)

NoParam ==
    [nonnil |-> FALSE, start |-> NUL, end |-> NUL, name |-> "", pattern |-> "",
     handler |-> newNodeHandler, child |-> Nil]

NoCatchall ==
    [nonnil |-> FALSE, name |-> "", pattern |-> "", handler |-> newNodeHandler]

newNode(edge, maxParams) ==
    [edge |-> edge, pattern |-> "", handler |-> newNodeHandler,
     maxParams |-> maxParams, indices |-> "", children |-> << >>,
     param |-> NoParam, catchall |-> NoCatchall]


RECURSIVE insertLoop(_, _, _, _, _, _, _)

\* node.insert, the catch-all branch: attach or reuse cn.catchall, register
\* the methods, then record the name and the pattern.
insertCatchall(T, cn, pat, method, pattern, h) ==
    LET c0 == IF T[cn].catchall.nonnil THEN T[cn].catchall
              ELSE [NoCatchall EXCEPT !.nonnil = TRUE]
        r  == set(c0.handler, method, h)
        c1 == [c0 EXCEPT !.handler = r.nh]
    IN  IF r.err # NoErr
        THEN [nodes |-> [T EXCEPT ![cn].catchall = c1], err |-> r.err]
        ELSE [nodes |-> [T EXCEPT ![cn].catchall =
                            [c1 EXCEPT !.name = From(pat, 2), !.pattern = pattern]],
              err |-> NoErr]

\* node.insert, the parameter branch, with the reconciliation of the end
\* delimiter left out: the branch takes the end delimiter of the pattern,
\* set or not.
insertParam_OverwritesEnd(T, cn, pat, maxParams, method, pattern, h) ==
    LET i     == IndexByte(pat, "}")
        name  == SubSeq(pat, 2, i - 1)
        end   == IF Len(pat) > i THEN Byte(pat, i + 1) ELSE NUL
        p0    == IF T[cn].param.nonnil THEN T[cn].param
                 ELSE [NoParam EXCEPT !.nonnil = TRUE, !.name = name]
        T0    == [T EXCEPT ![cn].param = p0]
        p1    == [p0 EXCEPT !.end = end, !.name = name]
        rest  == From(pat, i + 1)
    IN  IF i = 0 THEN [nodes |-> T, err |-> routeError("errUnclosedParam", "", "")]
        ELSE IF p0.name # "" /\ p0.name # name
        THEN [nodes |-> T0, err |-> routeError("errParamConflict", name, p0.name)]
        ELSE IF rest = ""
        THEN LET r == set(p1.handler, method, h)
             IN  [nodes |-> [T EXCEPT ![cn].param =
                                [p1 EXCEPT !.pattern = pattern, !.handler = r.nh]],
                  err |-> r.err]
        ELSE LET fresh == p1.child = Nil
                 child == IF fresh THEN Len(T) + 1 ELSE p1.child
                 T1    == IF fresh THEN Append(T, newNode("", 0)) ELSE T
                 T2    == [T1 EXCEPT ![cn].param = [p1 EXCEPT !.child = child]]
             IN  insertLoop(T2, child, rest, (maxParams + 255) % 256, method, pattern, h)

\* node.insert, the parameter branch.
insertParam(T, cn, pat, maxParams, method, pattern, h) ==
    LET i     == IndexByte(pat, "}")
        name  == SubSeq(pat, 2, i - 1)
        edge  == T[cn].edge
        start == IF Len(edge) > 0 THEN Byte(edge, Len(edge)) ELSE NUL
        end   == IF Len(pat) > i THEN Byte(pat, i + 1) ELSE NUL
        p0    == IF T[cn].param.nonnil THEN T[cn].param
                 ELSE [NoParam EXCEPT !.nonnil = TRUE, !.name = name]
        T0    == [T EXCEPT ![cn].param = p0]
        start2 == IF start # p0.start /\ start = NUL THEN p0.start ELSE start
        end2   == IF end # p0.end /\ end = NUL THEN p0.end ELSE end
        p1    == [p0 EXCEPT !.start = start2, !.end = end2, !.name = name]
        rest  == From(pat, i + 1)
    IN  IF i = 0 THEN [nodes |-> T, err |-> routeError("errUnclosedParam", "", "")]
        ELSE IF p0.name # "" /\ p0.name # name
        THEN [nodes |-> T0, err |-> routeError("errParamConflict", name, p0.name)]
        ELSE IF start # p0.start /\ start # NUL /\ p0.start # NUL
        THEN [nodes |-> T0, err |-> routeError("errSeparatorConflict", start, p0.start)]
        ELSE IF end # p0.end /\ end # NUL /\ p0.end # NUL
        THEN [nodes |-> T0, err |-> routeError("errSeparatorConflict", end, p0.end)]
        ELSE IF rest = ""
        THEN LET r == set(p1.handler, method, h)
             IN  [nodes |-> [T EXCEPT ![cn].param =
                                [p1 EXCEPT !.pattern = pattern, !.handler = r.nh]],
                  err |-> r.err]
        ELSE LET fresh == p1.child = Nil
                 child == IF fresh THEN Len(T) + 1 ELSE p1.child
                 T1    == IF fresh THEN Append(T, newNode("", 0)) ELSE T
                 T2    == [T1 EXCEPT ![cn].param = [p1 EXCEPT !.child = child]]
             IN  insertLoop(T2, child, rest, (maxParams + 255) % 256, method, pattern, h)

\* node.insert, the static branch, with the update of cn.indices (line 172)
\* left out when a new leaf is appended.
insertStatic_NoIndex(T, cn, pat, maxParams, method, pattern, h) ==
    LET kids == T[cn].children
        M    == {i \in 1..Len(kids) :
                    T[kids[i]].edge # "" /\ Byte(T[kids[i]].edge, 1) = Byte(pat, 1)}
    IN  IF M # {}
        THEN LET i  == CHOOSE k \in M : \A j \in M : k <= j
                 n  == kids[i]
                 pl == cpl(T[n].edge, pat)
             IN  IF pl < Len(T[n].edge)
                 THEN LET prefix == Upto(T[n].edge, pl)
                          suffix == From(T[n].edge, pl + 1)
                          pn     == Len(T) + 1
                          pnode  == [newNode(prefix, 0) EXCEPT
                                        !.indices = Byte(suffix, 1),
                                        !.children = <<n>>]
                          T1     == Append([T EXCEPT ![n].edge = suffix,
                                                     ![cn].children[i] = pn], pnode)
                      IN  insertLoop(T1, pn, From(pat, pl + 1), maxParams, method, pattern, h)
                 ELSE insertLoop(T, n, From(pat, pl + 1), maxParams, method, pattern, h)
        ELSE LET ib   == IndexByte(pat, "{")
                 ia   == IndexByte(pat, "*")
                 cut  == IF ib # 0 THEN ib ELSE ia
                 edge == IF cut # 0 THEN Upto(pat, cut - 1) ELSE pat
                 rest == IF cut # 0 THEN From(pat, cut) ELSE ""
                 n    == Len(T) + 1
                 T1   == Append([T EXCEPT ![cn].children = Append(@, n)],
                                newNode(edge, maxParams))
             IN  insertLoop(T1, n, rest, maxParams, method, pattern, h)

\* node.insert, the static branch: follow (and split, if the edge is longer
\* than the common prefix) the first child whose edge starts with pat[0], or
\* append a new leaf for the static run.  On a split Go builds a prefix node
\* and a copy of n with the suffix as its edge, and drops n; the copy keeps
\* n's index here, the prefix node gets a new one.
insertStatic(T, cn, pat, maxParams, method, pattern, h) ==
    LET kids == T[cn].children
        M    == {i \in 1..Len(kids) :
                    T[kids[i]].edge # "" /\ Byte(T[kids[i]].edge, 1) = Byte(pat, 1)}
    IN  IF M # {}
        THEN LET i  == CHOOSE k \in M : \A j \in M : k <= j
                 n  == kids[i]
                 pl == cpl(T[n].edge, pat)
             IN  IF pl < Len(T[n].edge)
                 THEN LET prefix == Upto(T[n].edge, pl)
                          suffix == From(T[n].edge, pl + 1)
                          pn     == Len(T) + 1
                          pnode  == [newNode(prefix, 0) EXCEPT
                                        !.indices = Byte(suffix, 1),
                                        !.children = <<n>>]
                          T1     == Append([T EXCEPT ![n].edge = suffix,
                                                     ![cn].children[i] = pn], pnode)
                      IN  insertLoop(T1, pn, From(pat, pl + 1), maxParams, method, pattern, h)
                 ELSE insertLoop(T, n, From(pat, pl + 1), maxParams, method, pattern, h)
        ELSE LET ib   == IndexByte(pat, "{")
                 ia   == IndexByte(pat, "*")
                 cut  == IF ib # 0 THEN ib ELSE ia
                 edge == IF cut # 0 THEN Upto(pat, cut - 1) ELSE pat
                 rest == IF cut # 0 THEN From(pat, cut) ELSE ""
                 n    == Len(T) + 1
                 T1   == Append([T EXCEPT ![cn].indices = @ \o Byte(edge, 1),
                                          ![cn].children = Append(@, n)],
                                newNode(edge, maxParams))
             IN  insertLoop(T1, n, rest, maxParams, method, pattern, h)

\* One iteration of the loop of node.insert at node cn with pat left to place.
insertLoop(T, cn, pat, maxParams, method, pattern, h) ==
    IF pat = ""
    THEN LET r == set(T[cn].handler, method, h)
         IN  [nodes |-> [T EXCEPT ![cn].pattern = pattern, ![cn].handler = r.nh],
              err |-> r.err]
    ELSE LET T1 == IF maxParams > T[cn].maxParams
                   THEN [T EXCEPT ![cn].maxParams = maxParams] ELSE T
         IN  IF Byte(pat, 1) = "*" THEN insertCatchall(T1, cn, pat, method, pattern, h)
             ELSE IF Byte(pat, 1) = "{"
             THEN insertParam(T1, cn, pat, maxParams, method, pattern, h)
             ELSE insertStatic(T1, cn, pat, maxParams, method, pattern, h)

\* node.insert on the root.
insert(T, method, pattern, h) ==
    insertLoop(T, Root, pattern, countParams(pattern), method, pattern, h)

-----------------------------------------------------------------------------
(* node.lookup.  A result is Go's (h, ps, pat, redir); h points at the     *)
(* method table of a node, of its parameter branch or of its catch-all     *)
(* branch, or is nil.  A nil Params and an empty one are both << >>.       *)

tsrNone == "tsrNone"

tsrWithSlash == "tsrWithSlash"

tsrWithoutSlash == "tsrWithoutSlash"

NilH == [src |-> "nil", id |-> Nil]

found(src, id, ps, pat) == [h |-> [src |-> src, id |-> id], ps |-> ps, pat |-> pat, redir |-> tsrNone]

notFound(redir) == [h |-> NilH, ps |-> << >>, pat |-> "", redir |-> redir]

param(key, val) == [key |-> key, val |-> val]

\* recommend: add-trailing-slash when a child of nd with a handler has
\* exactly path + "/" as its edge.
recommend(T, nd, path) ==
    IF (path = "" \/ Byte(path, Len(path)) # "/")
       /\ nd # Nil
       /\ \E k \in 1..Len(T[nd].children) :
             LET n == T[nd].children[k]
             IN  T[n].edge = path \o "/" /\ T[n].handler.isSet
    THEN notFound(tsrWithSlash)
    ELSE notFound(tsrNone)

\* The number of leading bytes of path that are neither end nor '/'.
RECURSIVE scanParam(_, _, _)
scanParam(path, end, i) ==
    IF i < Len(path) /\ Byte(path, i + 1) # end /\ Byte(path, i + 1) # "/"
    THEN scanParam(path, end, i + 1)
    ELSE i

RECURSIVE lookupLoop(_, _, _, _, _, _, _, _, _)

\* lookupCatchall without line 269, "path = cp": the catch-all is bound to
\* what remains after the static descent instead of what remained at its node.
lookupCatchall_NoRewind(T, nd, path, ps, cn, cp) ==
    IF cn # Nil
    THEN IF ~T[cn].catchall.handler.isSet THEN notFound(tsrNone)
         ELSE found("catchall", cn, Append(ps, param(T[cn].catchall.name, path)),
                    T[cn].catchall.pattern)
    ELSE IF path = "/" /\ T[nd].handler.isSet THEN notFound(tsrWithoutSlash)
    ELSE recommend(T, nd, path)

\* node.lookup from "// catch-all node" on, and the code after the loop.
lookupCatchall(T, nd, path, ps, cn, cp) ==
    IF cn # Nil
    THEN IF ~T[cn].catchall.handler.isSet THEN notFound(tsrNone)
         ELSE found("catchall", cn, Append(ps, param(T[cn].catchall.name, cp)),
                    T[cn].catchall.pattern)
    ELSE IF path = "/" /\ T[nd].handler.isSet THEN notFound(tsrWithoutSlash)
    ELSE recommend(T, nd, path)

\* node.lookup from "// parameter node" on.
lookupParam(T, nd, path, ps, pn, pp, cn, cp) ==
    LET elen == Len(T[pn].edge)
        pm   == T[pn].param
    IN  IF pn = Nil THEN lookupCatchall(T, nd, path, ps, cn, cp)
        ELSE IF ~(\/ elen = 0 /\ pm.start = NUL
                  \/ elen > 0 /\ Byte(T[pn].edge, elen) = pm.start)
        THEN lookupCatchall(T, nd, pp, ps, cn, cp)
        ELSE LET i    == scanParam(pp, pm.end, 0)
                 ps2  == Append(ps, param(pm.name, Upto(pp, i)))
                 rest == From(pp, i + 1)
             IN  IF rest = ""
                 THEN IF pm.handler.isSet THEN found("param", pn, ps2, pm.pattern)
                      ELSE recommend(T, pm.child, rest)
                 ELSE IF pm.child = Nil
                 THEN IF rest = "/" /\ pm.handler.isSet THEN notFound(tsrWithoutSlash)
                      ELSE notFound(tsrNone)
                 ELSE lookupLoop(T, pm.child, rest, ps2, pn, Nil, pp, Nil, cp)

\* One iteration of the loop of node.lookup.
lookupLoop(T, nd, path, ps, prev, pn, pp, cn, cp) ==
    IF path = "" \/ path = T[nd].edge
    THEN IF T[nd].handler.isSet THEN found("node", nd, ps, T[nd].pattern)
         ELSE IF T[nd].edge = "/" /\ prev # Nil /\ T[prev].handler.isSet
         THEN notFound(tsrWithoutSlash)
         ELSE recommend(T, nd, path)
    ELSE LET hasC == T[nd].catchall.nonnil
             hasP == T[nd].param.nonnil
             pn1  == IF hasP THEN nd ELSE IF hasC THEN Nil ELSE pn
             pp1  == IF hasP THEN path ELSE pp
             cn1  == IF hasP THEN Nil ELSE IF hasC THEN nd ELSE cn
             cp1  == IF hasC THEN path ELSE cp
             I    == {i \in 1..Len(T[nd].indices) : Byte(T[nd].indices, i) = Byte(path, 1)}
             n    == T[nd].children[CHOOSE i \in I : \A j \in I : i <= j]
         IN  IF I # {} /\ HasPrefix(path, T[n].edge)
             THEN lookupLoop(T, n, From(path, Len(T[n].edge) + 1), ps, nd, pn1, pp1, cn1, cp1)
             ELSE lookupParam(T, nd, path, ps, pn1, pp1, cn1, cp1)

\* node.lookup on the root; ps starts as po[0:0], the empty Params.
lookup(T, path) == lookupLoop(T, Root, path, << >>, Nil, Nil, "", Nil, "")

\* The method table h points at.
tableOf(T, h) ==
    IF h.src = "node" THEN T[h.id].handler
    ELSE IF h.src = "param" THEN T[h.id].param.handler
    ELSE T[h.id].catchall.handler

-----------------------------------------------------------------------------
(* Router. *)

StatusMovedPermanently == 301

DefaultNotFound == "route.NotFound"

\* Router.handler without lines 92-94: the result of the host walk is final.
handler_HostWalkOnly(T, hostAware, h404, host, path) ==
    LET r == IF hostAware THEN lookup(T, host \o path) ELSE lookup(T, path)
    IN  IF r.h # NilH
        THEN [kind |-> "table", h |-> r.h, ps |-> r.ps, pat |-> r.pat]
        ELSE IF r.redir = tsrWithSlash
        THEN [kind |-> "redirect", url |-> path \o "/", code |-> StatusMovedPermanently,
              ps |-> r.ps, pat |-> r.pat]
        ELSE IF r.redir = tsrWithoutSlash
        THEN IF path = ""
             THEN [kind |-> "panic", ps |-> << >>, pat |-> ""]
             ELSE [kind |-> "redirect", url |-> Upto(path, Len(path) - 1),
                   code |-> StatusMovedPermanently, ps |-> r.ps, pat |-> r.pat]
        ELSE [kind |-> "notfound", handler |-> h404, ps |-> r.ps, pat |-> r.pat]

\* Router.handler: the handler, the Params and the pattern for a request.
\* A redirect that strips the '/' of an empty path is a slice out of range.
handler(T, hostAware, h404, host, path) ==
    LET r0 == IF hostAware THEN lookup(T, host \o path) ELSE notFound(tsrNone)
        r  == IF r0.h = NilH /\ r0.redir = tsrNone THEN lookup(T, path) ELSE r0
    IN  IF r.h # NilH
        THEN [kind |-> "table", h |-> r.h, ps |-> r.ps, pat |-> r.pat]
        ELSE IF r.redir = tsrWithSlash
        THEN [kind |-> "redirect", url |-> path \o "/", code |-> StatusMovedPermanently,
              ps |-> r.ps, pat |-> r.pat]
        ELSE IF r.redir = tsrWithoutSlash
        THEN IF path = ""
             THEN [kind |-> "panic", ps |-> << >>, pat |-> ""]
             ELSE [kind |-> "redirect", url |-> Upto(path, Len(path) - 1),
                   code |-> StatusMovedPermanently, ps |-> r.ps, pat |-> r.pat]
        ELSE [kind |-> "notfound", handler |-> h404, ps |-> r.ps, pat |-> r.pat]

-----------------------------------------------------------------------------
(* The environment: what the callers of the Router pass in.  A pool is a   *)
(* family of patterns and method lists registered together; request paths  *)
(* are the empty path and every path of at most MaxPathLen bytes over      *)
(* PathBytes that starts with '/'.                                         *)

PoolNames ==
    {"static", "param", "fallback", "catchall", "conflict", "method", "invalid", "unclosed",
     "host", "authority", "split", "rename"}

PoolPatterns(p) ==
    CASE p = "static"   -> {"/a", "/a/", "/ab", "/a/b"}
      [] p = "param"    -> {"/a/b", "/a/{x}", "/{x}/b", "/{x}/{y}", "/a/{x}/b"}
      [] p = "fallback" -> {"/{x}", "/{x}/b", "/aa", "/ab"}
      [] p = "catchall" -> {"/*c", "/*", "/a", "/{x}", "/{x}/a"}
      [] p = "conflict" -> {"/a/{x}", "/a/{y}", "/a/{}", "/a/{x}.b", "/a/{x}/b"}
      [] p = "method"   -> {"/a", "/{x}", "/*c"}
      [] p = "invalid"  -> {"", "/a", "h/{x"}
      [] p = "unclosed" -> {"/a/{x", "/{x}/{y", "/{z}", "/*{", "/{x}"}
      [] p = "host"     -> {"{s}.h/{x}", "h.{t}/a", "h/a", "h/{x}", "/a"}
      [] p = "authority" -> {"h", "/"}
      [] p = "split"    -> {"/a/a", "/a", "/aa"}
      [] p = "rename"   -> {"/*c", "/*d"}

PoolMethods(p) ==
    CASE p = "method"   -> {"GET", "PUT", "*", "PUT,GET", "GET,,PUT"}
      [] p = "invalid"  -> {"", "GET", ",GET", "GET,GET,"}
      [] p = "conflict" -> {"GET", "PUT"}
      [] p = "rename"   -> {"GET", "PUT"}
      [] OTHER          -> {"GET"}

\* The handler a caller registers for (method, pattern): each registration
\* brings a handler of its own, as in the tests' routerSetup.
HandlerFor(method, pattern) == method \o " " \o pattern

PoolHandlers(p, method, pattern) ==
    IF p = "invalid" THEN {HandlerFor(method, pattern), NilHandler}
    ELSE {HandlerFor(method, pattern)}

CustomNotFound == "custom404"

PoolNotFound(p) == IF p = "static" THEN {CustomNotFound, NilHandler} ELSE {}

PoolHosts(p) ==
    CASE p = "host"      -> {"h", "a.h", "h.a.b"}
      [] p = "authority" -> {"h", "h/"}
      [] OTHER           -> {""}

PathBytes == {"/", "a", "b"}

RECURSIVE Strings(_)
Strings(n) ==
    IF n = 0 THEN {""}
    ELSE LET S == Strings(n - 1)
         IN  S \cup {s \o c : s \in {t \in S : Len(t) = n - 1}, c \in PathBytes}

Paths == {""} \cup {"/" \o s : s \in Strings(MaxPathLen - 1)}

\* The paths requested of the Routers of a pool.  The routes of "method"
\* and of "rename" differ in their method lists, have no byte 'b' and at
\* most one segment; their requests have no 'b' and at most MethodPathLen
\* bytes.
MethodPathLen == 3

PoolPaths(p) ==
    IF p \in {"method", "rename"}
    THEN {q \in Paths : Len(q) <= MethodPathLen /\ \A i \in 1..Len(q) : Byte(q, i) # "b"}
    ELSE Paths

\* The ServeHTTP calls that can be in flight together.
Requests == {"r1", "r2"}

\* A ServeHTTP call that has not been made yet.
NoRequest == [pc |-> "idle"]

-----------------------------------------------------------------------------
(* The operations. *)

Init ==
    /\ nodes = <<newNode("", 0)>>
    /\ hosts = FALSE
    /\ handle404 = DefaultNotFound
    /\ resp = [op |-> "NewRouter"]
    /\ registered = {}
    /\ pool \in PoolNames
    /\ calls = 0
    /\ params = << >>
    /\ ctxs = << >>
    /\ ctxpool = {}
    /\ reqs = [r \in Requests |-> NoRequest]

\* Requests are served once registration is over ("build, then serve"): no
\* Handle or SetNotFound follows a request.  A request only reads the Router
\* and overwrites resp, so every Router a longer run builds is built by a run
\* of this shape, and every request's outcome is the outcome of a run that
\* ends with it.
serving == resp.op = "Handler"

\* Router.Handle with lines 123-125 moved above the argument checks: the
\* host-aware flag is set before the arguments are looked at.
Handle_FlagFirst(method, pattern, h) ==
    /\ ~serving
    /\ calls < MaxHandles
    /\ calls' = calls + 1
    /\ UNCHANGED <<handle404, pool, params, ctxs, ctxpool, reqs>>
    /\ hosts' = (hosts \/ (pattern # "" /\ Byte(pattern, 1) # "/"))
    /\ IF pattern = "" \/ method = "" \/ h = NilHandler
       THEN /\ resp' = [op |-> "Handle", method |-> method, pattern |-> pattern, h |-> h,
                        panic |-> IF pattern = "" THEN "empty pattern"
                                  ELSE IF method = "" THEN "empty method"
                                  ELSE "nil handler",
                        err |-> NoErr]
            /\ UNCHANGED <<nodes, registered>>
       ELSE LET r == insert(nodes, method, pattern, h)
            IN  /\ nodes' = r.nodes
                /\ resp' = [op |-> "Handle", method |-> method, pattern |-> pattern, h |-> h,
                            panic |-> IF r.err = NoErr THEN "" ELSE r.err.typ,
                            err |-> r.err]
                /\ registered' = IF r.err = NoErr
                                 THEN registered \cup {<<method, pattern, h>>}
                                 ELSE registered

\* Router.Handle(method, pattern, h).
Handle(method, pattern, h) ==
    /\ ~serving
    /\ calls < MaxHandles
    /\ calls' = calls + 1
    /\ UNCHANGED <<handle404, pool, params, ctxs, ctxpool, reqs>>
    /\ IF pattern = "" \/ method = "" \/ h = NilHandler
       THEN /\ resp' = [op |-> "Handle", method |-> method, pattern |-> pattern, h |-> h,
                        panic |-> IF pattern = "" THEN "empty pattern"
                                  ELSE IF method = "" THEN "empty method"
                                  ELSE "nil handler",
                        err |-> NoErr]
            /\ UNCHANGED <<nodes, hosts, registered>>
       ELSE LET r == insert(nodes, method, pattern, h)
            IN  /\ hosts' = (hosts \/ Byte(pattern, 1) # "/")
                /\ nodes' = r.nodes
                /\ resp' = [op |-> "Handle", method |-> method, pattern |-> pattern, h |-> h,
                            panic |-> IF r.err = NoErr THEN "" ELSE r.err.typ,
                            err |-> r.err]
                /\ registered' = IF r.err = NoErr
                                 THEN registered \cup {<<method, pattern, h>>}
                                 ELSE registered

\* Router.SetNotFound(h).
SetNotFound(h) ==
    /\ ~serving
    /\ handle404' = IF h # NilHandler THEN h ELSE handle404
    /\ resp' = [op |-> "SetNotFound", h |-> h]
    /\ UNCHANGED <<nodes, hosts, registered, pool, calls, params, ctxs, ctxpool, reqs>>

\* Router.Handler(req) for a request with the given Host and URL.Path.
Handler(host, path) ==
    /\ ~serving
    /\ resp' = [op |-> "Handler", host |-> host, path |-> path,
                out |-> handler(nodes, hosts, handle404, host, path)]
    /\ UNCHANGED <<nodes, hosts, handle404, registered, pool, calls, params, ctxs, ctxpool, reqs>>

Next ==
    \/ \E m \in PoolMethods(pool), p \in PoolPatterns(pool) :
          \E h \in PoolHandlers(pool, m, p) : Handle(m, p, h)
    \/ \E h \in PoolNotFound(pool) : SetNotFound(h)
    \/ \E host \in PoolHosts(pool), path \in PoolPaths(pool) : Handler(host, path)

Spec == Init /\ [][Next]_vars

-----------------------------------------------------------------------------
(* The vocabulary of the claims: what it means for a key to match a        *)
(* pattern, stated on the pattern's text alone (each static byte equal,    *)
(* each {name} covering one non-empty run without '/', a trailing *name    *)
(* covering the non-empty remainder).  MatchSet(pat, key) is the set of    *)
(* Params under which key matches pat, in the order of pat's tokens.       *)

RECURSIVE MatchSet(_, _)
MatchSet(pat, key) ==
    IF pat = "" THEN (IF key = "" THEN {<< >>} ELSE {})
    ELSE IF Byte(pat, 1) = "*"
    THEN (IF key = "" THEN {} ELSE {<<param(From(pat, 2), key)>>})
    ELSE IF Byte(pat, 1) = "{"
    THEN LET i    == IndexByte(pat, "}")
             name == SubSeq(pat, 2, i - 1)
             K    == {k \in 1..Len(key) : \A j \in 1..k : Byte(key, j) # "/"}
         IN  IF i = 0 THEN {}
             ELSE UNION {{<<param(name, Upto(key, k))>> \o b :
                            b \in MatchSet(From(pat, i + 1), From(key, k + 1))} : k \in K}
    ELSE IF key # "" /\ Byte(key, 1) = Byte(pat, 1)
    THEN MatchSet(From(pat, 2), From(key, 2))
    ELSE {}

Matches(pat, key) == MatchSet(pat, key) # {}

\* The (method, pattern, handler) triples of the Handle calls that returned,
\* one per token of each method list.
Routes ==
    UNION {{<<Split(r[1])[i], r[2], r[3]>> : i \in 1..Len(Split(r[1]))} : r \in registered}

RoutePatterns == {r[2] : r \in registered}

\* The key a request is matched with under pattern P: host+path for a
\* host-qualified pattern, the path otherwise.
KeyFor(P, host, path) == IF Byte(P, 1) = "/" THEN path ELSE host \o path

\* A static segment: a non-empty run without '/', '{', '}' or '*'.
IsStaticSegment(seg) ==
    /\ seg # ""
    /\ \A i \in 1..Len(seg) : Byte(seg, i) \notin {"/", "{", "}", "*"}

\* Ps and Pp are identical except that Ps has the static segment Ps[i..j]
\* where Pp has a {name} parameter.
StaticVariantAt(Ps, Pp, i, j) ==
    /\ IsStaticSegment(SubSeq(Ps, i, j))
    /\ i > 1 /\ Byte(Ps, i - 1) = "/"
    /\ j = Len(Ps) \/ Byte(Ps, j + 1) = "/"
    /\ \E k \in (i + 1)..Len(Pp) :
          /\ Byte(Pp, i) = "{"
          /\ IndexByte(From(Pp, i), "}") = k - i + 1
          /\ Upto(Pp, i - 1) = Upto(Ps, i - 1)
          /\ From(Pp, k + 1) = From(Ps, j + 1)

StaticVariant(Ps, Pp) ==
    \E i \in 1..Len(Ps) : \E j \in i..Len(Ps) : StaticVariantAt(Ps, Pp, i, j)

\* The nodes of the trie and the static text that leads to them: Prefix(T, n)
\* is the concatenation of the edges from the root to n, for a node n that
\* is reached through children only (no parameter on the way).
Range(f) == {f[i] : i \in DOMAIN f}

IsChild(T, n) == \E p \in 1..Len(T) : n \in Range(T[p].children)

Parent(T, n) == CHOOSE p \in 1..Len(T) : n \in Range(T[p].children)

RECURSIVE StaticallyReached(_, _)
StaticallyReached(T, n) ==
    n = Root \/ (IsChild(T, n) /\ StaticallyReached(T, Parent(T, n)))

RECURSIVE Prefix(_, _)
Prefix(T, n) == IF n = Root THEN "" ELSE Prefix(T, Parent(T, n)) \o T[n].edge

\* The static continuation from node n matches the whole of rest: edges of
\* children spell rest and end at a node that carries a handler.
RECURSIVE StaticMatch(_, _, _)
StaticMatch(T, n, rest) ==
    IF rest = "" THEN T[n].handler.isSet
    ELSE \E k \in 1..Len(T[n].children) :
            LET c == T[n].children[k]
            IN  /\ T[c].edge # ""
                /\ HasPrefix(rest, T[c].edge)
                /\ StaticMatch(T, c, From(rest, Len(T[c].edge) + 1))

\* Params ps substituted for the tokens of pat, token by token: the text a
\* key must be for pat to match it with exactly these values under these
\* names; "?" when the names or the number of Params do not fit pat.
RECURSIVE Subst(_, _)
Subst(pat, ps) ==
    IF pat = "" THEN (IF ps = << >> THEN "" ELSE "?")
    ELSE IF Byte(pat, 1) = "*"
    THEN (IF Len(ps) = 1 /\ ps[1].key = From(pat, 2) THEN ps[1].val ELSE "?")
    ELSE IF Byte(pat, 1) = "{"
    THEN LET i == IndexByte(pat, "}")
         IN  IF i # 0 /\ ps # << >> /\ ps[1].key = SubSeq(pat, 2, i - 1)
             THEN ps[1].val \o Subst(From(pat, i + 1), Tail(ps))
             ELSE "?"
    ELSE Byte(pat, 1) \o Subst(From(pat, 2), ps)

\* A path with no empty segment: no "//" in it.
NoEmptySegment(path) ==
    \A i \in 1..(Len(path) - 1) : ~(Byte(path, i) = "/" /\ Byte(path, i + 1) = "/")

\* What a request with method m ends up running, given Handler's answer.
Dispatch(out, m) ==
    IF out.kind = "table" THEN nodeHandlerServe(tableOf(nodes, out.h), m)
    ELSE [code |-> 0, handler |-> NilHandler, allow |-> ""]

-----------------------------------------------------------------------------
(* C1: a request that matches a registered pattern P with a method         *)
(* registered for P gets pattern P from Router.Handler, is dispatched to   *)
(* the handler registered for (method, P), and gets the Params bound to    *)
(* P's tokens in left-to-right order.  Stated for the requests where no    *)
(* precedence rule decides and no segment is empty: P is the only          *)
(* registered pattern the request matches, and the path has no "//".       *)
C1_MatchedRouteIsServed ==
    resp.op = "Handler" =>
        \A r \in Routes :
            LET key == KeyFor(r[2], resp.host, resp.path)
            IN  (/\ r[1] # "*"
                 /\ NoEmptySegment(resp.path)
                 /\ Matches(r[2], key)
                 /\ \A Q \in RoutePatterns \ {r[2]} :
                        ~Matches(Q, KeyFor(Q, resp.host, resp.path)))
                => /\ resp.out.kind = "table"
                   /\ resp.out.pat = r[2]
                   /\ Dispatch(resp.out, r[1]).handler = r[3]
                   /\ resp.out.ps \in MatchSet(r[2], key)


(* C2: when two registered patterns are identical except that one has a    *)
(* static segment where the other has a {name} parameter, a request that   *)
(* matches the static pattern (and no registered pattern but these two) is *)
(* resolved to the static pattern and its handler, with no parameter bound *)
(* at that position.                                                       *)
C2_StaticBeatsParam ==
    resp.op = "Handler" =>
        \A r \in Routes : \A Pp \in RoutePatterns :
            LET key == KeyFor(r[2], resp.host, resp.path)
            IN  (/\ r[1] # "*"
                 /\ StaticVariant(r[2], Pp)
                 /\ NoEmptySegment(resp.path)
                 /\ Matches(r[2], key)
                 /\ \A Q \in RoutePatterns \ {r[2], Pp} :
                        ~Matches(Q, KeyFor(Q, resp.host, resp.path)))
                => /\ resp.out.kind = "table"
                   /\ resp.out.pat = r[2]
                   /\ Dispatch(resp.out, r[1]).handler = r[3]
                   /\ resp.out.ps \in MatchSet(r[2], key)


(* C3: when the remaining input at a node with a parameter branch is one   *)
(* segment and the static continuation from that node does not match the   *)
(* whole of it, lookup resumes at the parameter branch from the position   *)
(* where the branch was observed and returns the parameter pattern's       *)
(* handler with the whole segment bound.  Stated for the nodes reached by  *)
(* static text alone whose parameter branch ends a pattern.                *)
C3_FallbackToParam ==
    resp.op = "Handler" =>
        \A n \in 1..Len(nodes) :
            LET pre == Prefix(nodes, n)
                R   == From(resp.path, Len(pre) + 1)
            IN  (/\ StaticallyReached(nodes, n)
                 /\ nodes[n].param.nonnil
                 /\ nodes[n].param.handler.isSet
                 /\ HasPrefix(resp.path, pre)
                 /\ IsStaticSegment(R)
                 /\ ~StaticMatch(nodes, n, R))
                => /\ resp.out.kind = "table"
                   /\ resp.out.h = [src |-> "param", id |-> n]
                   /\ resp.out.pat = nodes[n].param.pattern
                   /\ resp.out.ps = <<param(nodes[n].param.name, R)>>


(* C4: a catch-all is greedy.  When lookup selects the catch-all branch of *)
(* a node, the last of the Params is bound under the branch's name (the    *)
(* text after '*' in the reported pattern, empty for a bare '*') to the    *)
(* entire input that remained at that node, '/' included: the reported     *)
(* pattern with the Params substituted for its tokens is the key, and for  *)
(* a node reached by static text alone the value is the key without that   *)
(* text, also when static children of the node were tried first.           *)
C4_CatchAllGreedy ==
    (resp.op = "Handler" /\ resp.out.kind = "table" /\ resp.out.h.src = "catchall") =>
        LET cn == resp.out.h.id
            ps == resp.out.ps
            P  == resp.out.pat
        IN  /\ ps # << >>
            /\ P = nodes[cn].catchall.pattern
            /\ ps[Len(ps)].key = nodes[cn].catchall.name
            /\ ps[Len(ps)].key = From(P, IndexByte(P, "*") + 1)
            /\ Subst(P, ps) = resp.path
            /\ StaticallyReached(nodes, cn) =>
                   /\ Len(ps) = 1
                   /\ Prefix(nodes, cn) \o ps[1].val = resp.path

\* C4's case: a catch-all selected after a static child of its node had
\* consumed part of the value, and the value spans a '/'.
C4_Witness ==
    /\ resp.op = "Handler" /\ resp.out.kind = "table" /\ resp.out.h.src = "catchall"
    /\ LET cn  == resp.out.h.id
           val == resp.out.ps[Len(resp.out.ps)].val
       IN  /\ \E k \in 1..Len(nodes[cn].children) :
                 HasPrefix(val, nodes[nodes[cn].children[k]].edge)
           /\ \E i \in 1..Len(val) : Byte(val, i) = "/"


(* C5: a parameter shadows a catch-all attached to the same node.  For a   *)
(* node n that has both branches: lookup never returns n's catch-all; a    *)
(* remainder of a single segment at n is bound to the parameter; and a     *)
(* remainder of more than one segment, when the parameter has no           *)
(* continuation, yields no handler.  Read with the other rules of the      *)
(* lookup granted: a static continuation that matches the remainder in     *)
(* full comes first, and "no handler" admits the trailing-slash redirect.  *)
C5_ParamShadowsCatchAll ==
    resp.op = "Handler" =>
        \A n \in 1..Len(nodes) :
            LET pre == Prefix(nodes, n)
                R   == From(resp.path, Len(pre) + 1)
                pm  == nodes[n].param
            IN  (/\ pm.nonnil
                 /\ nodes[n].catchall.nonnil
                 /\ StaticallyReached(nodes, n)
                 /\ HasPrefix(resp.path, pre)
                 /\ R # ""
                 /\ ~StaticMatch(nodes, n, R))
                => /\ ~(resp.out.kind = "table" /\ resp.out.h = [src |-> "catchall", id |-> n])
                   /\ (IsStaticSegment(R) /\ pm.handler.isSet) =>
                          /\ resp.out.kind = "table"
                          /\ resp.out.h = [src |-> "param", id |-> n]
                          /\ resp.out.ps = <<param(pm.name, R)>>
                   /\ (~IsStaticSegment(R) /\ pm.child = Nil) =>
                          resp.out.kind \in {"notfound", "redirect"}


\* The patterns C6 speaks of: static patterns and patterns ending in a
\* {name} parameter (no catch-all).
StaticOrEndsInParam(P) ==
    /\ \A i \in 1..Len(P) : Byte(P, i) # "*"
    /\ \/ \A i \in 1..Len(P) : Byte(P, i) # "{"
       \/ Byte(P, Len(P)) = "}"

\* Every Handle call so far has returned: the trie holds registered routes
\* only, nothing a failed call left behind.
NoFailedHandle == calls = Cardinality(registered)

\* No registered pattern matches the request itself.
Unmatched == \A Q \in RoutePatterns : ~Matches(Q, KeyFor(Q, resp.host, resp.path))

(* C6: for a request path that matches no registered pattern itself,       *)
(* Router.Handler returns a 301 redirect to path+"/" when path+"/" matches *)
(* a registered pattern, and a 301 redirect to the path without its final  *)
(* '/' when the path ends in '/' and the shorter path matches a registered *)
(* pattern; for static patterns and patterns ending in a {name} parameter, *)
(* whatever else is registered.  Stated for paths without empty segments   *)
(* on a Router no Handle call has failed on.                               *)
C6_TrailingSlashRedirect ==
    (resp.op = "Handler" /\ NoFailedHandle /\ Unmatched /\ NoEmptySegment(resp.path)) =>
        \A P \in RoutePatterns :
            LET path == resp.path
                key  == KeyFor(P, resp.host, path)
            IN  StaticOrEndsInParam(P) =>
                  /\ Matches(P, key \o "/") =>
                        /\ resp.out.kind = "redirect"
                        /\ resp.out.code = 301
                        /\ resp.out.url = path \o "/"
                  /\ (/\ Len(path) > 1
                      /\ Byte(path, Len(path)) = "/"
                      /\ Matches(P, Upto(key, Len(key) - 1))) =>
                        /\ resp.out.kind = "redirect"
                        /\ resp.out.code = 301
                        /\ resp.out.url = Upto(path, Len(path) - 1)


\* Some registered pattern (one with a handler) matches path, or host+path.
RegisteredMatch(host, path) ==
    \E r \in Routes : Matches(r[2], KeyFor(r[2], host, path))

(* C7: a redirect is only given toward a registered route.  Router.Handler *)
(* redirects to path+"/" only if path+"/" is matched by a registered       *)
(* pattern, and to the path without its final '/' only if the path ends in *)
(* '/' and the shorter path is matched by a registered pattern; a request  *)
(* for which lookup finds no handler and that has no such neighbour gets   *)
(* the not-found handler.  Stated on a Router no Handle call has failed    *)
(* on.                                                                     *)
C7_RedirectOnlyToRegistered ==
    (resp.op = "Handler" /\ NoFailedHandle /\ Unmatched) =>
        LET path == resp.path
            add  == RegisteredMatch(resp.host, path \o "/")
            rem  == /\ path # ""
                    /\ Byte(path, Len(path)) = "/"
                    /\ RegisteredMatch(resp.host, Upto(path, Len(path) - 1))
        IN  /\ resp.out.kind = "redirect" =>
                \/ add /\ resp.out.url = path \o "/"
                \/ rem /\ resp.out.url = Upto(path, Len(path) - 1)
            /\ (resp.out.kind # "table" /\ ~add /\ ~rem) => resp.out.kind = "notfound"


\* The panics of Handle's own argument checks (route.go 111-119).
ArgPanics == {"empty pattern", "empty method", "nil handler"}

\* Two patterns end at the same terminal position: the same text, or the
\* same text up to a final catch-all whose name alone differs.
SamePosition(P, Q) ==
    \/ P = Q
    \/ /\ IndexByte(P, "*") # 0
       /\ IndexByte(P, "*") = IndexByte(Q, "*")
       /\ Upto(P, IndexByte(P, "*")) = Upto(Q, IndexByte(Q, "*"))

\* The method tokens registered, by Handle calls that returned, on the
\* terminal position of pattern P.
RegisteredMethods(P) == {r[1] : r \in {q \in Routes : SamePosition(q[2], P)}}

(* C8: a Handle call whose method list has a token that is already         *)
(* registered on the terminal position of its pattern ("*" included) fails *)
(* with a method-conflict error naming a token of the list that is         *)
(* registered there, and a call none of whose tokens is registered there   *)
(* does not fail with a method conflict, whatever is registered on other   *)
(* patterns.  Read with C9 granted: a list with an empty token fails, with *)
(* either error.                                                           *)
C8_MethodConflict ==
    [][(resp'.op = "Handle" /\ resp'.panic \notin ArgPanics) =>
          LET toks == Range(Split(resp'.method))
              reg  == RegisteredMethods(resp'.pattern)
          IN  /\ (toks \cap reg # {}) =>
                    /\ resp'.err # NoErr
                    /\ "" \notin toks =>
                          /\ resp'.err.typ = "errMethodConflict"
                          /\ resp'.err.a \in toks \cap reg
              /\ (toks \cap reg = {}) => resp'.err.typ # "errMethodConflict"
      ]_vars


\* The method table at the terminal position of pattern pat below node n of
\* trie T, as the descent of a registration finds it: the node's table at
\* the end of the pattern, a branch's table at a final token, an empty
\* table where the trie has no such position yet.
RECURSIVE Terminal(_, _, _)
Terminal(T, n, pat) ==
    IF pat = "" THEN T[n].handler
    ELSE IF Byte(pat, 1) = "*"
    THEN (IF T[n].catchall.nonnil THEN T[n].catchall.handler ELSE newNodeHandler)
    ELSE IF Byte(pat, 1) = "{"
    THEN LET i    == IndexByte(pat, "}")
             rest == From(pat, i + 1)
             pm   == T[n].param
         IN  IF i = 0 \/ ~pm.nonnil THEN newNodeHandler
             ELSE IF rest = "" THEN pm.handler
             ELSE IF pm.child = Nil THEN newNodeHandler
             ELSE Terminal(T, pm.child, rest)
    ELSE LET C == {c \in Range(T[n].children) :
                      T[c].edge # "" /\ HasPrefix(pat, T[c].edge)}
         IN  IF C = {} THEN newNodeHandler
             ELSE Terminal(T, CHOOSE c \in C : TRUE,
                           From(pat, Len(T[CHOOSE c \in C : TRUE].edge) + 1))

\* The errors a pattern raises on its own, whatever the method list.
PatternErrors == {"errUnclosedParam", "errParamConflict", "errSeparatorConflict"}

\* The tokens of method list ms before its first empty token.
BeforeEmpty(ms) ==
    LET k == CHOOSE i \in 1..Len(ms) : ms[i] = "" /\ \A j \in 1..(i - 1) : ms[j] # ""
    IN  SubSeq(ms, 1, k - 1)

\* No token of seq occurs twice in it or is an entry of table hm.
FreshTokens(seq, hm) ==
    /\ \A i \in 1..Len(seq) : seq[i] \notin DOMAIN hm
    /\ \A i, j \in 1..Len(seq) : seq[i] = seq[j] => i = j

(* C9, as written: a Handle call that passes Handle's own argument checks  *)
(* and whose method list has an empty token fails with "Missing method",   *)
(* for every pattern.                                                      *)
C9_MissingMethodAlways ==
    [][(/\ resp'.op = "Handle"
        /\ resp'.panic \notin ArgPanics
        /\ "" \in Range(Split(resp'.method)))
       => resp'.err.typ = "missingMethod"]_vars

(* C9, amended: a Handle call whose method list has an empty token always  *)
(* fails.  When it passes Handle's argument checks the error is a pattern  *)
(* error (only for a pattern with a parameter), a method conflict or       *)
(* "Missing method"; short of a pattern error it is "Missing method"       *)
(* exactly when the tokens before the first empty one are pairwise         *)
(* distinct and none of them is in the method table at the pattern's       *)
(* terminal position, and a method conflict otherwise.                     *)
C9_MissingMethod ==
    [][(resp'.op = "Handle" /\ "" \in Range(Split(resp'.method))) =>
          /\ resp'.panic # ""
          /\ resp'.panic \notin ArgPanics =>
                LET typ   == resp'.err.typ
                    P     == resp'.pattern
                    fresh == FreshTokens(BeforeEmpty(Split(resp'.method)),
                                         Terminal(nodes, Root, P).hm)
                IN  /\ typ \in PatternErrors \cup {"errMethodConflict", "missingMethod"}
                    /\ typ \in PatternErrors => IndexByte(P, "{") # 0
                    /\ typ \notin PatternErrors => (typ = "missingMethod" <=> fresh)
      ]_vars

\* C9's case: a list with a token before the empty one has been refused
\* with "Missing method".
C9_Witness ==
    /\ resp.op = "Handle"
    /\ resp.method = "GET,,PUT"
    /\ resp.err.typ = "missingMethod"


\* Pattern P places a parameter named n right after the text u.
ParamAt(P, u, n) ==
    \E i \in 1..Len(P) :
        LET k == IndexByte(From(P, i), "}")
        IN  /\ Byte(P, i) = "{"
            /\ k # 0
            /\ u = Upto(P, i - 1)
            /\ n = SubSeq(P, i + 1, i + k - 2)

\* The texts a pattern can place a parameter after, and the names it can
\* give one.
Cuts(P) == {Upto(P, i) : i \in 0..Len(P)}

Names(P) == {SubSeq(P, i, j) : i \in 1..(Len(P) + 1), j \in 0..Len(P)}

\* Pattern P places a parameter where a registered pattern has placed one
\* under another name.
RenamesParam(P) ==
    \E Q \in RoutePatterns : \E u \in Cuts(P) :
        \E n1 \in Names(Q), n2 \in Names(P) :
            ParamAt(Q, u, n1) /\ ParamAt(P, u, n2) /\ n1 # n2

(* C10: a Handle call fails with the parameter-name-conflict error         *)
(* whenever its pattern places a parameter {n2} at a position where an     *)
(* earlier registration placed a parameter {n1} with n1 # n2, and never    *)
(* fails this way when the names at every shared position are equal.       *)
(* Stated for the calls that pass Handle's argument checks on a Router no  *)
(* Handle call has failed on.                                              *)
C10_ParamNameConflict ==
    [][(/\ resp'.op = "Handle"
        /\ resp'.panic \notin ArgPanics
        /\ NoFailedHandle)
       => (RenamesParam(resp'.pattern) <=> resp'.err.typ = "errParamConflict")]_vars


\* Pattern P has a '{' with no '}' after it.
HasUnclosedBrace(P) ==
    \E i \in 1..Len(P) : Byte(P, i) = "{" /\ IndexByte(From(P, i), "}") = 0

\* Handle's argument checks, in their order, each panicking with the trie
\* and the host-aware flag as they were.
ArgChecksFirst ==
    /\ resp'.pattern = "" => resp'.panic = "empty pattern"
    /\ (resp'.pattern # "" /\ resp'.method = "") => resp'.panic = "empty method"
    /\ (resp'.pattern # "" /\ resp'.method # "" /\ resp'.h = NilHandler)
          => resp'.panic = "nil handler"
    /\ (resp'.pattern # "" /\ resp'.method # "" /\ resp'.h # NilHandler)
          => resp'.panic \notin ArgPanics
    /\ resp'.panic \in ArgPanics => (nodes' = nodes /\ hosts' = hosts)

(* C11, as written: Handle rejects an empty pattern, an empty method and a *)
(* nil handler, checked in that order, by panicking before the trie is     *)
(* touched and before the host-aware flag is changed; and a pattern with a *)
(* '{' that has no closing '}' is rejected with the unclosed-parameter     *)
(* error.                                                                  *)
C11_RejectsBadArguments ==
    [][resp'.op = "Handle" =>
          /\ ArgChecksFirst
          /\ (resp'.panic \notin ArgPanics /\ HasUnclosedBrace(resp'.pattern))
                => resp'.err.typ = "errUnclosedParam"
      ]_vars

(* C11, amended: the argument checks as above; and a pattern with a '{'    *)
(* that has no '}' after it and no '*' before it is rejected, with the     *)
(* unclosed-parameter error when that '{' is the pattern's first, and with *)
(* that error or the name or separator conflict of an earlier parameter    *)
(* otherwise.  The unclosed-parameter error is given to such patterns      *)
(* only.                                                                   *)
C11_RejectsBadArgumentsOrBrace ==
    [][resp'.op = "Handle" =>
          /\ ArgChecksFirst
          /\ resp'.panic \notin ArgPanics =>
                LET P == resp'.pattern
                    i == IndexByte(P, "{")
                IN  /\ (HasUnclosedBrace(P) /\ IndexByte(P, "*") = 0) =>
                          /\ resp'.err.typ \in PatternErrors
                          /\ IndexByte(From(P, i), "}") = 0
                                => resp'.err.typ = "errUnclosedParam"
                    /\ resp'.err.typ = "errUnclosedParam" => HasUnclosedBrace(P)
      ]_vars

\* C11's case: a host-qualified pattern with a nil handler has been refused
\* on a Router that has routes and is not host-aware.
C11_Witness ==
    /\ resp.op = "Handle"
    /\ resp.panic = "nil handler"
    /\ Byte(resp.pattern, 1) # "/"
    /\ ~hosts
    /\ registered # {}


\* The methods requests are made with.
RequestMethods == {"GET", "PUT", "OPTIONS"}

(* C12: when the path of a request matches the pattern Router.Handler      *)
(* reports and the request's method is neither registered on that pattern  *)
(* nor covered by a "*" entry, the response is 405 with an Allow header    *)
(* equal to the concrete methods registered on the pattern by the Handle   *)
(* calls that returned, sorted, comma-joined, without duplicates and       *)
(* without "*".  Stated for the methods other than OPTIONS.                *)
C12_MethodNotAllowed ==
    (/\ resp.op = "Handler"
     /\ resp.out.kind = "table"
     /\ Matches(resp.out.pat, KeyFor(resp.out.pat, resp.host, resp.path)))
    => \A m \in RequestMethods \ {"OPTIONS"} :
          LET reg == RegisteredMethods(resp.out.pat)
              d   == Dispatch(resp.out, m)
          IN  (m \notin reg /\ "*" \notin reg)
                 => /\ d.code = 405
                    /\ d.allow = Join(SortStrings(reg \ {"*"}))


(* C13: method dispatch on a matched pattern.  A handler registered under  *)
(* the request's exact method is the one that runs, whether "*" was        *)
(* registered on the pattern before or after it; and the handler           *)
(* registered under "*" runs for every request method that has no exact    *)
(* entry in the pattern's method table.                                    *)
C13_ExactBeforeStar ==
    (resp.op = "Handler" /\ resp.out.kind = "table") =>
        \A m \in RequestMethods : \A r \in Routes :
            LET d   == Dispatch(resp.out, m)
                tab == tableOf(nodes, resp.out.h)
            IN  SamePosition(r[2], resp.out.pat) =>
                  /\ r[1] = m => (d.code = 200 /\ d.handler = r[3])
                  /\ (r[1] = "*" /\ m \notin DOMAIN tab.hm)
                        => (d.code = 200 /\ d.handler = r[3])

\* C13's case: a request matched on a pattern that has both a "*" handler
\* and a handler for GET.
C13_Witness ==
    /\ resp.op = "Handler"
    /\ resp.out.kind = "table"
    /\ \E r1, r2 \in Routes :
          /\ r1[2] = resp.out.pat /\ r2[2] = resp.out.pat
          /\ r1[1] = "*" /\ r2[1] = "GET"


(* Matching with end delimiters: as MatchSet, but a {name} covers the run  *)
(* up to the first '/' or the first occurrence of the byte that follows    *)
(* '}' in the pattern.                                                     *)
RECURSIVE MatchDelim(_, _)
MatchDelim(pat, key) ==
    IF pat = "" THEN (IF key = "" THEN {<< >>} ELSE {})
    ELSE IF Byte(pat, 1) = "*"
    THEN (IF key = "" THEN {} ELSE {<<param(From(pat, 2), key)>>})
    ELSE IF Byte(pat, 1) = "{"
    THEN LET i    == IndexByte(pat, "}")
             name == SubSeq(pat, 2, i - 1)
             end  == IF i < Len(pat) THEN Byte(pat, i + 1) ELSE NUL
             k    == scanParam(key, end, 0)
         IN  IF i = 0 \/ k = 0 THEN {}
             ELSE {<<param(name, Upto(key, k))>> \o b :
                      b \in MatchDelim(From(pat, i + 1), From(key, k + 1))}
    ELSE IF key # "" /\ Byte(key, 1) = Byte(pat, 1)
    THEN MatchDelim(From(pat, 2), From(key, 2))
    ELSE {}

HostQualified(P) == P # "" /\ Byte(P, 1) # "/"

(* C14: once a host-qualified pattern is registered, a request whose       *)
(* host+path matches a host-qualified pattern P (each host parameter       *)
(* extending up to its end delimiter) is resolved to P and its handler, in *)
(* preference to a path-only pattern that matches the path, with the host  *)
(* parameters bound before the path parameters.  Stated for the requests   *)
(* that match a single host-qualified pattern and have no empty segment,   *)
(* on a Router no Handle call has failed on.                               *)
C14_HostQualifiedMatch ==
    (resp.op = "Handler" /\ NoFailedHandle /\ NoEmptySegment(resp.path)) =>
        \A r \in Routes :
            LET key == resp.host \o resp.path
            IN  (/\ HostQualified(r[2])
                 /\ r[1] # "*"
                 /\ MatchDelim(r[2], key) # {}
                 /\ \A Q \in RoutePatterns \ {r[2]} :
                        HostQualified(Q) => MatchDelim(Q, key) = {})
                => /\ resp.out.kind = "table"
                   /\ resp.out.pat = r[2]
                   /\ resp.out.ps \in MatchDelim(r[2], key)
                   /\ Dispatch(resp.out, r[1]).handler = r[3]


\* No host-qualified registered pattern matches host+path.
NoHostMatch ==
    \A Q \in RoutePatterns :
        HostQualified(Q) => MatchDelim(Q, resp.host \o resp.path) = {}

C16_HandlerNeverNil ==
    resp.op = "Handler" =>
        \/ resp.out.kind = "table" /\ resp.out.h # NilH
        \/ resp.out.kind = "redirect"
        \/ resp.out.kind = "notfound" /\ resp.out.handler # NilHandler

(* C17: the not-found handler is never nil, and once SetNotFound(h) has    *)
(* installed a non-nil h, every request that matches no registered pattern *)
(* and receives no trailing-slash redirect is dispatched to h with an      *)
(* empty pattern.  Stated on a Router no Handle call has failed on.        *)
C17_NotFoundHook ==
    /\ handle404 # NilHandler
    /\ (resp.op = "Handler" /\ handle404 = CustomNotFound /\ NoFailedHandle
            /\ Unmatched /\ resp.out.kind # "redirect") =>
          /\ resp.out.kind = "notfound"
          /\ resp.out.handler = CustomNotFound
          /\ resp.out.pat = ""

-----------------------------------------------------------------------------
(* Params and its typed accessors (part_001).  The integers of strconv are *)
(* kept as a sign and a magnitude, the sequence of the decimal digits,     *)
(* most significant first and without leading zeros (<< >> is zero), so    *)
(* that the bounds of the 64-bit types are values of the model.  int and   *)
(* uint are 64 bits wide, as the constants of params_test.go require, so   *)
(* the conversions int(i64) and uint(u64) keep the value.                  *)

DecimalDigits == "0123456789"

isDigit(c) == IndexByte(DecimalDigits, c) # 0

digitVal(c) == IndexByte(DecimalDigits, c) - 1

RECURSIVE stripZeros(_)
stripZeros(d) == IF d # << >> /\ Head(d) = 0 THEN stripZeros(Tail(d)) ELSE d

\* a < b for two magnitudes.
magLess(a, b) ==
    IF Len(a) # Len(b) THEN Len(a) < Len(b)
    ELSE \E i \in 1..Len(a) : a[i] < b[i] /\ \A j \in 1..(i - 1) : a[j] = b[j]

RECURSIVE digitsOf(_)
digitsOf(s) == IF s = "" THEN << >> ELSE <<digitVal(Byte(s, 1))>> \o digitsOf(From(s, 2))

\* The magnitude written by a string of decimal digits.
Mag(s) == stripZeros(digitsOf(s))

\* 1<<64 - 1
MaxUint64 == Mag("18446744073709551615")

\* 1<<63
Cutoff64 == Mag("9223372036854775808")

\* 1<<63 - 1
MaxInt64 == Mag("9223372036854775807")

nilError == [typ |-> "nil"]

ErrNoParam(key) == [typ |-> "ErrNoParam", key |-> key]

\* &strconv.NumError{Func: fn, Num: num, Err: err}
NumError(fn, num, err) == [typ |-> "NumError", fn |-> fn, num |-> num, err |-> err]

ErrSyntax == "ErrSyntax"

ErrRange == "ErrRange"

\* The loop of strconv.ParseUint(s, 10, 64) from byte i on, n being the
\* value of the bytes before i: a byte that is no digit is a syntax error,
\* a value above 1<<64 - 1 a range error with the maximum as the value,
\* whichever comes first.
RECURSIVE parseUintFrom(_, _, _, _)
parseUintFrom(s0, s, i, n) ==
    IF i > Len(s) THEN [v |-> n, err |-> nilError]
    ELSE IF ~isDigit(Byte(s, i))
    THEN [v |-> << >>, err |-> NumError("ParseUint", s0, ErrSyntax)]
    ELSE LET n1 == stripZeros(n \o <<digitVal(Byte(s, i))>>)
         IN  IF magLess(MaxUint64, n1)
             THEN [v |-> MaxUint64, err |-> NumError("ParseUint", s0, ErrRange)]
             ELSE parseUintFrom(s0, s, i + 1, n1)

\* strconv.ParseUint(s, 10, 64)
ParseUint(s) ==
    IF s = "" THEN [v |-> << >>, err |-> NumError("ParseUint", s, ErrSyntax)]
    ELSE parseUintFrom(s, s, 1, << >>)

int64(neg, mag) == [neg |-> neg /\ mag # << >>, mag |-> mag]

\* strconv.ParseInt(s, 10, 64) with the cutoff of the negative numbers at
\* 1<<63 too: -1<<63 is out of range.
ParseInt_SymmetricCutoff(s) ==
    IF s = "" THEN [v |-> int64(FALSE, << >>), err |-> NumError("ParseInt", s, ErrSyntax)]
    ELSE LET neg  == Byte(s, 1) = "-"
             rest == IF Byte(s, 1) \in {"+", "-"} THEN From(s, 2) ELSE s
             un   == ParseUint(rest)
         IN  IF un.err # nilError /\ un.err.err # ErrRange
             THEN [v |-> int64(FALSE, << >>), err |-> NumError("ParseInt", s, ErrSyntax)]
             ELSE IF ~neg /\ ~magLess(un.v, Cutoff64)
             THEN [v |-> int64(FALSE, MaxInt64), err |-> NumError("ParseInt", s, ErrRange)]
             ELSE IF neg /\ ~magLess(un.v, Cutoff64)
             THEN [v |-> int64(TRUE, Cutoff64), err |-> NumError("ParseInt", s, ErrRange)]
             ELSE [v |-> int64(neg, un.v), err |-> nilError]

\* strconv.ParseInt(s, 10, 64)
ParseInt(s) ==
    IF s = "" THEN [v |-> int64(FALSE, << >>), err |-> NumError("ParseInt", s, ErrSyntax)]
    ELSE LET neg  == Byte(s, 1) = "-"
             rest == IF Byte(s, 1) \in {"+", "-"} THEN From(s, 2) ELSE s
             un   == ParseUint(rest)
         IN  IF un.err # nilError /\ un.err.err # ErrRange
             THEN [v |-> int64(FALSE, << >>), err |-> NumError("ParseInt", s, ErrSyntax)]
             ELSE IF ~neg /\ ~magLess(un.v, Cutoff64)
             THEN [v |-> int64(FALSE, MaxInt64), err |-> NumError("ParseInt", s, ErrRange)]
             ELSE IF neg /\ magLess(Cutoff64, un.v)
             THEN [v |-> int64(TRUE, Cutoff64), err |-> NumError("ParseInt", s, ErrRange)]
             ELSE [v |-> int64(neg, un.v), err |-> nilError]

\* strconv.ParseBool(str)
ParseBool(str) ==
    IF str \in {"1", "t", "T", "TRUE", "true", "True"} THEN [v |-> TRUE, err |-> nilError]
    ELSE IF str \in {"0", "f", "F", "FALSE", "false", "False"}
    THEN [v |-> FALSE, err |-> nilError]
    ELSE [v |-> FALSE, err |-> NumError("ParseBool", str, ErrSyntax)]

(* strconv.ParseFloat(s, 64) for the decimal forms: an optional sign,      *)
(* digits with an optional '.', an optional exponent.  The hexadecimal     *)
(* forms, '_' and the spellings of infinity and NaN are not among the      *)
(* values the accessors are called on here.  A float64 is kept as a sign,  *)
(* the magnitude of its decimal mantissa without trailing zeros and a      *)
(* decimal exponent (the value is mag * 10^exp), or as an infinity;        *)
(* rounding to 53 bits is not modelled.                                    *)

float64(neg, mag, exp) == [inf |-> FALSE, neg |-> neg, mag |-> mag, exp |-> exp]

Inf(neg) == [inf |-> TRUE, neg |-> neg, mag |-> << >>, exp |-> 0]

\* The number of digits s has from byte i on.
RECURSIVE digitRun(_, _)
digitRun(s, i) == IF i <= Len(s) /\ isDigit(Byte(s, i)) THEN 1 + digitRun(s, i + 1) ELSE 0

\* The exponent written by the digits of s in i..j, which stops growing at
\* 10000 as in strconv's readFloat.
RECURSIVE expFrom(_, _, _, _)
expFrom(s, i, j, e) ==
    IF i > j THEN e
    ELSE expFrom(s, i + 1, j, IF e < 10000 THEN e * 10 + digitVal(Byte(s, i)) ELSE e)

RECURSIVE stripTrailingZeros(_)
stripTrailingZeros(d) ==
    IF d # << >> /\ d[Len(d)] = 0 THEN stripTrailingZeros(SubSeq(d, 1, Len(d) - 1)) ELSE d

\* a < b for the digits of two mantissas d.ddd of the same exponent.
mantissaLess(a, b) ==
    LET n    == IF Len(a) < Len(b) THEN Len(b) ELSE Len(a)
        A(i) == IF i <= Len(a) THEN a[i] ELSE 0
        B(i) == IF i <= Len(b) THEN b[i] ELSE 0
    IN  \E i \in 1..n : A(i) < B(i) /\ \A j \in 1..(i - 1) : A(j) = B(j)

\* The decimal exponent of the largest float64, 1.797...e308, and the first
\* digits of 2^1024 - 2^970, from which on a value rounds to infinity.
MaxFloat64Exp == 308

MinFloat64Exp == 0 - 324

MaxFloat64Midpoint == digitsOf("1797693134862315807937")

ParseFloat(s) ==
    LET signed   == s # "" /\ Byte(s, 1) \in {"+", "-"}
        neg      == s # "" /\ Byte(s, 1) = "-"
        i0       == IF signed THEN 2 ELSE 1
        nInt     == digitRun(s, i0)
        i1       == i0 + nInt
        dot      == i1 <= Len(s) /\ Byte(s, i1) = "."
        nFrac    == IF dot THEN digitRun(s, i1 + 1) ELSE 0
        i2       == IF dot THEN i1 + 1 + nFrac ELSE i1
        hasExp   == i2 <= Len(s) /\ Byte(s, i2) \in {"e", "E"}
        eSigned  == hasExp /\ i2 + 1 <= Len(s) /\ Byte(s, i2 + 1) \in {"+", "-"}
        eNeg     == eSigned /\ Byte(s, i2 + 1) = "-"
        i3       == IF hasExp THEN (IF eSigned THEN i2 + 2 ELSE i2 + 1) ELSE i2
        nExp     == IF hasExp THEN digitRun(s, i3) ELSE 0
        i4       == i3 + nExp
        syntaxOK == nInt + nFrac > 0 /\ (hasExp => nExp > 0) /\ i4 = Len(s) + 1
        e0       == expFrom(s, i3, i4 - 1, 0)
        e        == IF eNeg THEN 0 - e0 ELSE e0
        all      == digitsOf(SubSeq(s, i0, i1 - 1)) \o
                    (IF dot THEN digitsOf(SubSeq(s, i1 + 1, i2 - 1)) ELSE << >>)
        mag      == stripZeros(all)
        lead     == Len(mag) - 1 - nFrac + e
        m        == stripTrailingZeros(mag)
    IN  IF ~syntaxOK
        THEN [v |-> float64(FALSE, << >>, 0), err |-> NumError("ParseFloat", s, ErrSyntax)]
        ELSE IF mag = << >> \/ lead < MinFloat64Exp
        THEN [v |-> float64(neg, << >>, 0), err |-> nilError]
        ELSE IF lead > MaxFloat64Exp
                \/ (lead = MaxFloat64Exp /\ ~mantissaLess(mag, MaxFloat64Midpoint))
        THEN [v |-> Inf(neg), err |-> NumError("ParseFloat", s, ErrRange)]
        ELSE [v |-> float64(neg, m, (Len(mag) - Len(m)) + e - nFrac), err |-> nilError]

(* time.Parse(layout, value) for the layout "2006-01-02", the one layout   *)
(* the accessors are called with here: a year of four digits, a month and  *)
(* a day of two digits each, '-' between them and nothing after.  A Time   *)
(* is kept as its date in UTC; time.Time{} is January 1 of year 1.         *)

DateLayout == "2006-01-02"

Date(year, month, day) == [year |-> year, month |-> month, day |-> day]

ZeroTime == Date(1, 1, 1)

ParseError(layout, value) == [typ |-> "ParseError", layout |-> layout, value |-> value]

\* The number written by the digits of s.
RECURSIVE atoi(_)
atoi(s) == IF s = "" THEN 0 ELSE atoi(Upto(s, Len(s) - 1)) * 10 + digitVal(Byte(s, Len(s)))

isLeap(year) == year % 4 = 0 /\ (year % 100 # 0 \/ year % 400 = 0)

daysIn(month, year) ==
    IF month = 2 THEN (IF isLeap(year) THEN 29 ELSE 28)
    ELSE IF month \in {4, 6, 9, 11} THEN 30
    ELSE 31

timeParse(layout, value) ==
    LET shaped == /\ Len(value) = Len(layout)
                  /\ \A i \in 1..Len(value) :
                        IF i \in {5, 8} THEN Byte(value, i) = "-" ELSE isDigit(Byte(value, i))
        year   == atoi(SubSeq(value, 1, 4))
        month  == atoi(SubSeq(value, 6, 7))
        day    == atoi(SubSeq(value, 9, 10))
    IN  IF shaped /\ month \in 1..12 /\ day \in 1..daysIn(month, year)
        THEN [v |-> Date(year, month, day), err |-> nilError]
        ELSE [v |-> ZeroTime, err |-> ParseError(layout, value)]

(* The accessors.  Each returns the record of its Go results. *)

\* Params.get with the comparison of the keys left out: the value of the
\* first entry, whatever its key.
get_AnyKey(ps, key) ==
    IF ps # << >> THEN [v |-> ps[1].val, ok |-> TRUE] ELSE [v |-> "", ok |-> FALSE]

\* Params.get
get(ps, key) ==
    IF \E i \in 1..Len(ps) : ps[i].key = key
    THEN LET i == CHOOSE i \in 1..Len(ps) :
                     ps[i].key = key /\ \A j \in 1..(i - 1) : ps[j].key # key
         IN  [v |-> ps[i].val, ok |-> TRUE]
    ELSE [v |-> "", ok |-> FALSE]

ParamsBool(ps, key) ==
    LET g == get(ps, key)
    IN  IF g.ok THEN ParseBool(g.v) ELSE [v |-> FALSE, err |-> ErrNoParam(key)]

ParamsGetBool(ps, key) == ParamsBool(ps, key).v

ParamsString(ps, key) ==
    LET g == get(ps, key)
    IN  IF g.ok THEN [v |-> g.v, err |-> nilError] ELSE [v |-> "", err |-> ErrNoParam(key)]

ParamsGetString(ps, key) == get(ps, key).v

ParamsInt(ps, key) ==
    LET g == get(ps, key)
    IN  IF g.ok THEN ParseInt(g.v) ELSE [v |-> int64(FALSE, << >>), err |-> ErrNoParam(key)]

\* Params.GetInt returning 0 whenever Params.Int reports an error.
ParamsGetInt_ZeroOnError(ps, key) ==
    LET r == ParamsInt(ps, key)
    IN  IF r.err = nilError THEN r.v ELSE int64(FALSE, << >>)

ParamsGetInt(ps, key) == ParamsInt(ps, key).v

ParamsInt64(ps, key) ==
    LET g == get(ps, key)
    IN  IF g.ok THEN ParseInt(g.v) ELSE [v |-> int64(FALSE, << >>), err |-> ErrNoParam(key)]

ParamsGetInt64(ps, key) == ParamsInt64(ps, key).v

ParamsUint(ps, key) ==
    LET g == get(ps, key)
    IN  IF g.ok THEN ParseUint(g.v) ELSE [v |-> << >>, err |-> ErrNoParam(key)]

ParamsGetUint(ps, key) == ParamsUint(ps, key).v

ParamsUint64(ps, key) ==
    LET g == get(ps, key)
    IN  IF g.ok THEN ParseUint(g.v) ELSE [v |-> << >>, err |-> ErrNoParam(key)]

ParamsGetUint64(ps, key) == ParamsUint64(ps, key).v

ParamsFloat(ps, key) ==
    LET g == get(ps, key)
    IN  IF g.ok THEN ParseFloat(g.v)
        ELSE [v |-> float64(FALSE, << >>, 0), err |-> ErrNoParam(key)]

ParamsGetFloat(ps, key) == ParamsFloat(ps, key).v

ParamsTime(ps, key, layout) ==
    LET g == get(ps, key)
    IN  IF g.ok THEN timeParse(layout, g.v) ELSE [v |-> ZeroTime, err |-> ErrNoParam(key)]

ParamsGetTime(ps, key, layout) == ParamsTime(ps, key, layout).v

-----------------------------------------------------------------------------
(* The callers of the accessors: a Params value of at most MaxParams       *)
(* entries built by NewParams, its first value any of ParamValues, and the *)
(* keys the accessors are called with.                                     *)

MaxParams == 2

ParamKeys == {"key", "Key", "ke.y"}

ParamValues ==
    {"", "0", "1", "7", "+7", "-0", "007", "-12345", "twenty two", "22.89",
     "9223372036854775807", "9223372036854775808", "99999999999999999999x",
     "-9223372036854775808", "-9223372036854775809",
     "18446744073709551615", "18446744073709551616",
     "true", "false", "T", "TruE",
     "-1234.456e+78", "1e", ".5", "1.8e308", "1.797e308", "-1e309", "0.1.2",
     "1943-09-21", "1943-02-29", "1944-02-29", "08/15/1953"}

LaterValues == {"7", "true"}

CallKeys == {"key", "Key"}

Layouts == {DateLayout}

RECURSIVE ParamsOfLen(_)
ParamsOfLen(n) ==
    IF n = 0 THEN {<< >>}
    ELSE IF n = 1 THEN {<<param(k, v)>> : k \in ParamKeys, v \in ParamValues}
    ELSE {ps \o <<param(k, v)>> : ps \in ParamsOfLen(n - 1), k \in ParamKeys, v \in LaterValues}

\* NewParams(kv...)
ParamsInit ==
    /\ nodes = <<newNode("", 0)>>
    /\ hosts = FALSE
    /\ handle404 = DefaultNotFound
    /\ resp = [op |-> "NewParams"]
    /\ registered = {}
    /\ pool = "params"
    /\ calls = 0
    /\ params \in UNION {ParamsOfLen(n) : n \in 0..MaxParams}
    /\ ctxs = << >>
    /\ ctxpool = {}
    /\ reqs = [r \in Requests |-> NoRequest]

\* The accessors read the Params value and nothing else, so a call returns
\* the same after other calls as right after NewParams: each call is made
\* on the value as constructed.
constructed == resp.op = "NewParams"

\* The record of a call of an error-returning accessor and of its results.
Called(op, key, r) ==
    /\ constructed
    /\ resp' = [op |-> op, key |-> key, v |-> r.v, err |-> r.err]
    /\ UNCHANGED <<nodes, hosts, handle404, registered, pool, calls, params, ctxs, ctxpool, reqs>>

\* The record of a call of an error-swallowing accessor and of its result.
Got(op, key, v) ==
    /\ constructed
    /\ resp' = [op |-> op, key |-> key, v |-> v]
    /\ UNCHANGED <<nodes, hosts, handle404, registered, pool, calls, params, ctxs, ctxpool, reqs>>

CallBool(key) == Called("Bool", key, ParamsBool(params, key))

CallGetBool(key) == Got("GetBool", key, ParamsGetBool(params, key))

CallString(key) == Called("String", key, ParamsString(params, key))

CallGetString(key) == Got("GetString", key, ParamsGetString(params, key))

CallInt(key) == Called("Int", key, ParamsInt(params, key))

CallGetInt(key) == Got("GetInt", key, ParamsGetInt(params, key))

CallInt64(key) == Called("Int64", key, ParamsInt64(params, key))

CallGetInt64(key) == Got("GetInt64", key, ParamsGetInt64(params, key))

CallUint(key) == Called("Uint", key, ParamsUint(params, key))

CallGetUint(key) == Got("GetUint", key, ParamsGetUint(params, key))

CallUint64(key) == Called("Uint64", key, ParamsUint64(params, key))

CallGetUint64(key) == Got("GetUint64", key, ParamsGetUint64(params, key))

CallFloat(key) == Called("Float", key, ParamsFloat(params, key))

CallGetFloat(key) == Got("GetFloat", key, ParamsGetFloat(params, key))

CallTime(key, layout) == Called("Time", key, ParamsTime(params, key, layout))

CallGetTime(key, layout) == Got("GetTime", key, ParamsGetTime(params, key, layout))

ParamsNext ==
    \E key \in CallKeys :
        \/ CallBool(key) \/ CallGetBool(key)
        \/ CallString(key) \/ CallGetString(key)
        \/ CallInt(key) \/ CallGetInt(key)
        \/ CallInt64(key) \/ CallGetInt64(key)
        \/ CallUint(key) \/ CallGetUint(key)
        \/ CallUint64(key) \/ CallGetUint64(key)
        \/ CallFloat(key) \/ CallGetFloat(key)
        \/ \E layout \in Layouts : CallTime(key, layout) \/ CallGetTime(key, layout)

ParamsSpec == ParamsInit /\ [][ParamsNext]_vars

-----------------------------------------------------------------------------
(* The vocabulary of the claims about Params. *)

TypedAccessors == {"Bool", "String", "Int", "Int64", "Uint", "Uint64", "Float", "Time"}

SwallowingAccessors ==
    {"GetBool", "GetInt", "GetInt64", "GetUint", "GetUint64", "GetFloat", "GetTime"}

\* The zero value of the type an accessor returns.
ZeroOf(op) ==
    CASE op \in {"Bool", "GetBool"}                       -> FALSE
      [] op \in {"String", "GetString"}                   -> ""
      [] op \in {"Int", "GetInt", "Int64", "GetInt64"}     -> [neg |-> FALSE, mag |-> << >>]
      [] op \in {"Uint", "GetUint", "Uint64", "GetUint64"} -> << >>
      [] op \in {"Float", "GetFloat"}                     ->
            [inf |-> FALSE, neg |-> FALSE, mag |-> << >>, exp |-> 0]
      [] op \in {"Time", "GetTime"}                       -> Date(1, 1, 1)

\* No entry of ps has the key.
Absent(ps, key) == \A i \in 1..Len(ps) : ps[i].key # key

\* ps has the key, and every entry that has it has the value s.
Binds(ps, key, s) ==
    /\ \E i \in 1..Len(ps) : ps[i].key = key
    /\ \A i \in 1..Len(ps) : ps[i].key = key => ps[i].val = s

\* The decimal digits of a magnitude, "" for zero.
RECURSIVE magString(_)
magString(m) ==
    IF m = << >> THEN "" ELSE Byte(DecimalDigits, Head(m) + 1) \o magString(Tail(m))

\* strconv.FormatUint(u, 10)
FormatUint(u) == IF u = << >> THEN "0" ELSE magString(u)

\* strconv.FormatInt(v, 10)
FormatInt(v) == IF v.neg THEN "-" \o magString(v.mag) ELSE FormatUint(v.mag)

\* strconv.FormatBool(b)
FormatBool(b) == IF b THEN "true" ELSE "false"

\* Values of int64 (and int) and of uint64 (and uint), the bounds included.
Int64Values ==
    {[neg |-> FALSE, mag |-> << >>], [neg |-> FALSE, mag |-> <<7>>],
     [neg |-> TRUE, mag |-> <<1, 2, 3, 4, 5>>],
     [neg |-> FALSE, mag |-> <<9, 2, 2, 3, 3, 7, 2, 0, 3, 6, 8, 5, 4, 7, 7, 5, 8, 0, 7>>],
     [neg |-> TRUE, mag |-> <<9, 2, 2, 3, 3, 7, 2, 0, 3, 6, 8, 5, 4, 7, 7, 5, 8, 0, 8>>]}

Uint64Values ==
    {<< >>, <<7>>,
     <<9, 2, 2, 3, 3, 7, 2, 0, 3, 6, 8, 5, 4, 7, 7, 5, 8, 0, 8>>,
     <<1, 8, 4, 4, 6, 7, 4, 4, 0, 7, 3, 7, 0, 9, 5, 5, 1, 6, 1, 5>>}

\* What the error-returning counterpart of the accessor last called returns
\* for the same key.
Counterpart ==
    CASE resp.op = "GetBool"   -> ParamsBool(params, resp.key)
      [] resp.op = "GetInt"    -> ParamsInt(params, resp.key)
      [] resp.op = "GetInt64"  -> ParamsInt64(params, resp.key)
      [] resp.op = "GetUint"   -> ParamsUint(params, resp.key)
      [] resp.op = "GetUint64" -> ParamsUint64(params, resp.key)
      [] resp.op = "GetFloat"  -> ParamsFloat(params, resp.key)
      [] resp.op = "GetTime"   -> ParamsTime(params, resp.key, DateLayout)

OutOfRange(err) == err.typ = "NumError" /\ err.err = ErrRange

\* The value strconv gives along with its range error: the bound of the
\* type nearest to the number written.
Clamped(v) ==
    \/ resp.op \in {"GetInt", "GetInt64"} /\ v \in {[neg |-> FALSE, mag |-> MaxInt64],
                                                    [neg |-> TRUE, mag |-> Cutoff64]}
    \/ resp.op \in {"GetUint", "GetUint64"} /\ v = MaxUint64
    \/ resp.op = "GetFloat" /\ v \in {Inf(FALSE), Inf(TRUE)}

(* C18: for every Params value and every key not present in it, each typed *)
(* accessor (Bool, String, Int, Int64, Uint, Uint64, Float, Time) returns  *)
(* the zero value of its type and the error ErrNoParam(key); a key that    *)
(* differs from the entries' keys in case or punctuation only is absent.   *)
C18_AbsentKey ==
    (resp.op \in TypedAccessors /\ Absent(params, resp.key)) =>
        /\ resp.v = ZeroOf(resp.op)
        /\ resp.err = [typ |-> "ErrNoParam", key |-> resp.key]

\* Int is called with "key" on a Params value that has "Key" and "ke.y".
C18_Witness ==
    /\ resp.op = "Int" /\ resp.key = "key"
    /\ params = <<param("Key", "7"), param("ke.y", "7")>>
    /\ resp.err = [typ |-> "ErrNoParam", key |-> "key"]

(* C19: for every value v of bool, int, int64, uint or uint64, the minimum *)
(* and the maximum of the 64-bit ranges included, the matching typed       *)
(* accessor returns v and a nil error from a Params value that binds the   *)
(* key to the boolean or decimal string form of v.                         *)
C19_RoundTrip ==
    /\ \A b \in BOOLEAN :
          (resp.op = "Bool" /\ Binds(params, resp.key, FormatBool(b))) =>
              resp.v = b /\ resp.err = nilError
    /\ \A v \in Int64Values :
          (resp.op \in {"Int", "Int64"} /\ Binds(params, resp.key, FormatInt(v))) =>
              resp.v = v /\ resp.err = nilError
    /\ \A u \in Uint64Values :
          (resp.op \in {"Uint", "Uint64"} /\ Binds(params, resp.key, FormatUint(u))) =>
              resp.v = u /\ resp.err = nilError

\* Int64 has read back the minimum of int64.
C19_Witness ==
    /\ resp.op = "Int64"
    /\ Binds(params, resp.key, "-9223372036854775808")
    /\ resp.v = [neg |-> TRUE, mag |-> Cutoff64]
    /\ resp.err = nilError

(* C20 as stated: each error-swallowing accessor (GetBool, GetInt,         *)
(* GetInt64, GetUint, GetUint64, GetFloat, GetTime) returns the zero value *)
(* of its type whenever its error-returning counterpart reports an error   *)
(* for the same key: absent key, syntax error or out-of-range value.       *)
C20_GetZeroOnError ==
    (resp.op \in SwallowingAccessors /\ Counterpart.err # nilError) =>
        resp.v = ZeroOf(resp.op)

(* C20: each error-swallowing accessor returns the value its counterpart   *)
(* returns for the same key: the zero value of its type when the           *)
(* counterpart reports an absent key or a syntax error, and the bound of   *)
(* the type nearest to the number written (an infinity for GetFloat) when  *)
(* the counterpart reports an out-of-range value.                          *)
C20_GetValueOfCounterpart ==
    resp.op \in SwallowingAccessors =>
        /\ resp.v = Counterpart.v
        /\ (Counterpart.err # nilError /\ ~OutOfRange(Counterpart.err)) =>
              resp.v = ZeroOf(resp.op)
        /\ OutOfRange(Counterpart.err) =>
              resp.v # ZeroOf(resp.op) /\ Clamped(resp.v)

\* GetInt has returned the maximum of int64 for 1<<63.
C20_Witness ==
    /\ resp.op = "GetInt"
    /\ Binds(params, resp.key, "9223372036854775808")
    /\ resp.v = [neg |-> FALSE, mag |-> MaxInt64]

-----------------------------------------------------------------------------
(* Matching in full, at its loosest: the static bytes of the pattern are   *)
(* consumed literally, a {name} captures any run, the empty one included,  *)
(* that has no '/' and no occurrence of the byte following '}' in the      *)
(* pattern, and a trailing catch-all captures the whole remainder.         *)
RECURSIVE FullMatch(_, _)
FullMatch(pat, key) ==
    IF pat = "" THEN (IF key = "" THEN {<< >>} ELSE {})
    ELSE IF Byte(pat, 1) = "*"
    THEN {<<param(From(pat, 2), key)>>}
    ELSE IF Byte(pat, 1) = "{"
    THEN LET i   == IndexByte(pat, "}")
             end == IF i < Len(pat) THEN Byte(pat, i + 1) ELSE NUL
             K   == {k \in 0..Len(key) :
                        \A j \in 1..k : Byte(key, j) \notin {"/", end}}
         IN  IF i = 0 THEN {}
             ELSE UNION {{<<param(SubSeq(pat, 2, i - 1), Upto(key, k))>> \o b :
                            b \in FullMatch(From(pat, i + 1), From(key, k + 1))} : k \in K}
    ELSE IF key # "" /\ Byte(key, 1) = Byte(pat, 1)
    THEN FullMatch(From(pat, 2), From(key, 2))
    ELSE {}

(* C24: lookup soundness.  Whenever Router.Handler answers from the table  *)
(* with pattern P, the key looked up (the path, or host+path on a host-    *)
(* aware Router) is matched by P in full and the Params returned are the   *)
(* values P captures from it.  Stated on a Router no Handle call has       *)
(* failed on.                                                              *)
C24_LookupSound ==
    (resp.op = "Handler" /\ NoFailedHandle /\ resp.out.kind = "table") =>
        \E key \in {resp.path, resp.host \o resp.path} :
            resp.out.ps \in FullMatch(resp.out.pat, key)

-----------------------------------------------------------------------------
\* A pattern without parameters: no {name} and no catch-all.
IsStaticPattern(P) ==
    /\ P # ""
    /\ \A i \in 1..Len(P) : Byte(P, i) \notin {"{", "}", "*"}

\* On trie T, the literal path of pattern P resolves to P and, for method m,
\* to handler h.
ResolvesTo(T, hostAware, P, m, h) ==
    LET out == handler(T, hostAware, handle404, "", P)
    IN  /\ out.kind = "table"
        /\ out.pat = P
        /\ nodeHandlerServe(tableOf(T, out.h), m).handler = h

(* C23: edge splitting preserves earlier routes.  After a Handle call that *)
(* returns, every pattern without parameters registered before it still    *)
(* resolves, for its own literal path and each concrete method registered  *)
(* for it, to its own handler and pattern text.  Stated for path patterns  *)
(* on a Router no Handle call has failed on.                               *)
C23_SplitPreservesRoutes ==
    [][(resp'.op = "Handle" /\ resp'.panic = "" /\ NoFailedHandle) =>
          \A r \in Routes :
              (IsStaticPattern(r[2]) /\ Byte(r[2], 1) = "/" /\ r[1] # "*") =>
                  ResolvesTo(nodes', hosts', r[2], r[1], r[3])]_vars

-----------------------------------------------------------------------------
(* The parameter branches of trie T that pattern text pat, placed from     *)
(* node cn, arrives at: <<node, name, end>> for each {name} of the pattern *)
(* that meets a branch already attached to that node, with the byte that   *)
(* follows '}' in the pattern (NUL at the end of the pattern).  A static   *)
(* run that stops inside an edge, or that finds no child, meets no branch. *)
RECURSIVE Reached(_, _, _)
Reached(T, cn, pat) ==
    IF pat = "" \/ Byte(pat, 1) = "*" THEN {}
    ELSE IF Byte(pat, 1) = "{"
    THEN LET i    == IndexByte(pat, "}")
             end  == IF i < Len(pat) THEN Byte(pat, i + 1) ELSE NUL
             pm   == T[cn].param
         IN  IF i = 0 \/ ~pm.nonnil THEN {}
             ELSE {<<cn, SubSeq(pat, 2, i - 1), end>>} \cup
                  (IF i < Len(pat) /\ pm.child # Nil
                   THEN Reached(T, pm.child, From(pat, i + 1)) ELSE {})
    ELSE LET M == {k \in Range(T[cn].children) :
                      T[k].edge # "" /\ Byte(T[k].edge, 1) = Byte(pat, 1)}
         IN  IF M = {} THEN {}
             ELSE LET n == CHOOSE k \in M : TRUE
                  IN  IF HasPrefix(pat, T[n].edge)
                      THEN Reached(T, n, From(pat, Len(T[n].edge) + 1))
                      ELSE {}

\* The start delimiter a pattern brings to the branch of node n: the last
\* byte of the node's edge.
StartAt(T, n) == IF T[n].edge = "" THEN NUL ELSE Byte(T[n].edge, Len(T[n].edge))

\* A set delimiter on both sides, and the two differ.
Differ(a, b) == a # NUL /\ b # NUL /\ a # b

\* The delimiter of a branch after it was reconciled with the pattern's.
Adopted(new, old) == IF new # NUL THEN new ELSE old

\* The pattern names every reached branch as the branch is named.
SameNames(B) == \A b \in B : nodes[b[1]].param.name \in {"", b[2]}

(* C25: delimiter reconciliation at a shared parameter branch.  For a      *)
(* Handle call whose pattern arrives at existing parameter branches: if    *)
(* the pattern's end delimiter and a branch's are both set and differ, the *)
(* call fails, with a separator-conflict error when the names agree; a     *)
(* separator-conflict error is given for no other reason; when the call    *)
(* returns, each reached branch has the pattern's delimiter where the      *)
(* pattern sets one and its own otherwise; and no branch's set delimiter   *)
(* is changed by a call that returns.                                      *)
C25_DelimiterReconciliation ==
    [][(resp'.op = "Handle" /\ resp'.panic \notin ArgPanics) =>
          LET B == Reached(nodes, Root, resp'.pattern)
              clash == {b \in B : \/ Differ(b[3], nodes[b[1]].param.end)
                                  \/ Differ(StartAt(nodes, b[1]), nodes[b[1]].param.start)}
          IN  /\ clash # {} => resp'.panic # ""
              /\ (clash # {} /\ SameNames(B) /\ ~HasUnclosedBrace(resp'.pattern)) =>
                     resp'.err.typ = "errSeparatorConflict"
              /\ resp'.err.typ = "errSeparatorConflict" => clash # {}
              /\ resp'.panic = "" =>
                     /\ \A b \in B :
                            /\ nodes'[b[1]].param.end = Adopted(b[3], nodes[b[1]].param.end)
                            /\ nodes'[b[1]].param.start =
                                   Adopted(StartAt(nodes, b[1]), nodes[b[1]].param.start)
                     /\ \A n \in DOMAIN nodes :
                            /\ nodes[n].param.end # NUL =>
                                   nodes'[n].param.end = nodes[n].param.end
                            /\ nodes[n].param.start # NUL =>
                                   nodes'[n].param.start = nodes[n].param.start]_vars

\* A call refused for its end delimiter, on a Router where a branch had
\* adopted the end delimiter of a later pattern.
C25_Witness ==
    /\ resp.op = "Handle"
    /\ resp.err.typ = "errSeparatorConflict"
    /\ {"/a/{x}", "/a/{x}.b"} \subseteq RoutePatterns
    /\ \E n \in DOMAIN nodes : nodes[n].param.nonnil /\ nodes[n].param.end = "."

-----------------------------------------------------------------------------
\* What a request (host, path, method m) gets from a Router with trie T:
\* the outcome of Router.Handler without the identity of the table, and
\* what the table runs for m.
Answer(T, hostAware, host, path, m) ==
    LET out == handler(T, hostAware, handle404, host, path)
    IN  [kind   |-> out.kind,
         pat    |-> out.pat,
         ps     |-> out.ps,
         url    |-> IF out.kind = "redirect" THEN out.url ELSE "",
         served |-> IF out.kind = "table"
                    THEN nodeHandlerServe(tableOf(T, out.h), m)
                    ELSE [code |-> 0, handler |-> NilHandler, allow |-> ""]]

\* The errors of node.insert.
InsertErrors ==
    {"errMethodConflict", "missingMethod", "errParamConflict",
     "errSeparatorConflict", "errUnclosedParam"}

(* C26: a failed registration leaves the routing table unchanged.  After a *)
(* Handle call that panics with an error of node.insert, every request of  *)
(* the pool gets the answer it got before the call (outcome, pattern,      *)
(* params, redirect target, handler run and Allow list), and every         *)
(* registration of the pool that would have succeeded before the call      *)
(* still succeeds.                                                         *)
C26_FailedHandleChangesNothing ==
    [][(resp'.op = "Handle" /\ resp'.err.typ \in InsertErrors) =>
          /\ \A host \in PoolHosts(pool), path \in PoolPaths(pool), m \in RequestMethods :
                 Answer(nodes', hosts', host, path, m) = Answer(nodes, hosts, host, path, m)
          /\ \A m \in PoolMethods(pool), P \in PoolPatterns(pool) :
                 (P # "" /\ m # "" /\ insert(nodes, m, P, HandlerFor(m, P)).err = NoErr) =>
                     insert(nodes', m, P, HandlerFor(m, P)).err = NoErr]_vars

-----------------------------------------------------------------------------
\* The names written in pattern P, in order: one per {name}, and the name
\* of a catch-all.
RECURSIVE PatternNames(_)
PatternNames(P) ==
    IF P = "" THEN << >>
    ELSE IF Byte(P, 1) = "*" THEN <<From(P, 2)>>
    ELSE IF Byte(P, 1) = "{"
    THEN LET i == IndexByte(P, "}")
         IN  IF i = 0 THEN << >>
             ELSE <<SubSeq(P, 2, i - 1)>> \o PatternNames(From(P, i + 1))
    ELSE PatternNames(From(P, 2))

(* C27: the pattern and the parameter names reported for a match are those *)
(* under which the dispatched handler was registered.  When a request is   *)
(* dispatched to the handler of a Handle(m, P, h) call that returned,      *)
(* Router.Handler reports pattern P and Params whose keys are the names    *)
(* written in P, in order.  Stated for the patterns all of whose names are  *)
(* non-empty, on a Router no Handle call has failed on; each call of the   *)
(* pool registers a handler of its own, so the handler identifies the      *)
(* call.                                                                   *)
C27_ReportsRegisteredPattern ==
    (resp.op = "Handler" /\ NoFailedHandle /\ resp.out.kind = "table") =>
        \A m \in RequestMethods : \A r \in Routes :
            (/\ r[1] = m
             /\ "" \notin Range(PatternNames(r[2]))
             /\ Dispatch(resp.out, m).handler = r[3]) =>
                /\ resp.out.pat = r[2]
                /\ [i \in 1..Len(resp.out.ps) |-> resp.out.ps[i].key] = PatternNames(r[2])

-----------------------------------------------------------------------------
\* The orders in which the registrations of set S can be made.
Orders(S) ==
    {f \in [1..Cardinality(S) -> S] : \A i, j \in 1..Cardinality(S) : f[i] = f[j] => i = j}

\* The Router after the Handle calls of seq, from the i-th on, made on the
\* Router (T, hostAware): its trie, its host-aware flag and whether every
\* call returned.
RECURSIVE Build(_, _, _, _)
Build(T, hostAware, seq, i) ==
    IF i > Len(seq) THEN [nodes |-> T, hosts |-> hostAware, ok |-> TRUE]
    ELSE LET r == insert(T, seq[i][1], seq[i][2], seq[i][3])
         IN  IF r.err # NoErr
             THEN [nodes |-> r.nodes, hosts |-> hostAware, ok |-> FALSE]
             ELSE Build(r.nodes, hostAware \/ Byte(seq[i][2], 1) # "/", seq, i + 1)

(* C28: registration order does not matter.  When every Handle call made   *)
(* on the Router has returned, the same calls made on a new Router in any  *)
(* other order all return too, and the Router they build gives every       *)
(* request of the pool the same answer (outcome, pattern, params, redirect *)
(* target, handler run and Allow list).                                    *)
C28_OrderIndependent ==
    (resp.op = "Handle" /\ NoFailedHandle) =>
        \A seq \in Orders(registered) :
            LET R == Build(<<newNode("", 0)>>, FALSE, seq, 1)
            IN  /\ R.ok
                /\ \A host \in PoolHosts(pool), path \in PoolPaths(pool), m \in RequestMethods :
                       Answer(R.nodes, R.hosts, host, path, m) =
                           Answer(nodes, hosts, host, path, m)

-----------------------------------------------------------------------------
\* The places of trie T that point at node n: <<p, i>> for children[i] of
\* node p, <<p, 0>> for the continuation node of p's parameter branch.
ParentsOf(T, n) ==
    UNION {{<<p, i>> : i \in {j \in 1..Len(T[p].children) : T[p].children[j] = n}} :
              p \in DOMAIN T}
    \cup {<<p, 0>> : p \in {q \in DOMAIN T : T[q].param.nonnil /\ T[q].param.child = n}}

IsParamChild(T, n) == \E p \in DOMAIN T : T[p].param.nonnil /\ T[p].param.child = n

\* The number of pointers held by the first p nodes of trie T: their
\* children and the continuation nodes of their parameter branches.
RECURSIVE Pointers(_, _)
Pointers(T, p) ==
    IF p = 0 THEN 0
    ELSE Len(T[p].children) + (IF T[p].param.child # Nil THEN 1 ELSE 0) + Pointers(T, p - 1)

\* Node p of trie T points at node n.
PointsAt(T, p, n) ==
    \/ \E i \in 1..Len(T[p].children) : T[p].children[i] = n
    \/ T[p].param.child = n

(* C30: trie shape.  In every state, that is after every Handle call,      *)
(* returned or panicked: each node's index string is as long as its child  *)
(* list and indices[i] is the first byte of children[i].edge; no two       *)
(* children of a node start with the same byte; every edge but the root's  *)
(* and that of a parameter continuation node is non-empty; a parameter     *)
(* branch that is not attached has no continuation node; the root has no   *)
(* parent and every other node is pointed at from exactly one place: the   *)
(* trie holds one pointer less than it has nodes, none of them at the root *)
(* and at least one at every other node.                                   *)
C30_TrieShape ==
    /\ \A n \in DOMAIN nodes :
           LET nd == nodes[n]
           IN  /\ Len(nd.indices) = Len(nd.children)
               /\ \A i \in 1..Len(nd.children) :
                      /\ nd.children[i] \in DOMAIN nodes
                      /\ nodes[nd.children[i]].edge # ""
                      /\ Byte(nd.indices, i) = Byte(nodes[nd.children[i]].edge, 1)
               /\ \A i, j \in 1..Len(nd.indices) :
                      Byte(nd.indices, i) = Byte(nd.indices, j) => i = j
               /\ (n # Root /\ ~IsParamChild(nodes, n)) => nd.edge # ""
               /\ ~nd.param.nonnil => nd.param.child = Nil
               /\ nd.param.child # Nil => nd.param.child \in DOMAIN nodes
    /\ nodes[Root].edge = ""
    /\ Pointers(nodes, Len(nodes)) = Len(nodes) - 1
    /\ \A n \in DOMAIN nodes :
           (n # Root) <=> \E p \in DOMAIN nodes : PointsAt(nodes, p, n)

\* A trie in which an edge was split and a node has two children, on a
\* Router a Handle call has failed on.
C30_Witness ==
    /\ ~NoFailedHandle
    /\ \E n \in DOMAIN nodes :
           /\ Len(nodes[n].children) >= 2
           /\ n # Root
           /\ nodes[n].edge # ""
    /\ resp.op = "Handle"

-----------------------------------------------------------------------------
(* Router.ServeHTTP and the pooled contexts.  A Params slice is its        *)
(* backing array (as long as the slice's capacity) and its length; a nil   *)
(* slice and an empty one without capacity are both NilParams.  The local  *)
(* variables of node.lookup are a record st; st.mem is the array behind    *)
(* po, which ps shares until an append outgrows it.                        *)

NilParams == [arr |-> << >>, len |-> 0]

ZeroParam == param("", "")

\* The elements of a slice.
elems(s) == SubSeq(s.arr, 1, s.len)

\* append(ps, x): in place while the capacity lasts, into a new array of
\* twice the capacity (of one element for capacity 0) otherwise.
appendParam(ps, x) ==
    IF ps.len < Len(ps.arr)
    THEN [ps EXCEPT !.arr[ps.len + 1] = x, !.len = @ + 1]
    ELSE LET cap == IF Len(ps.arr) = 0 THEN 1 ELSE 2 * Len(ps.arr)
         IN  [arr    |-> SubSeq(ps.arr, 1, ps.len) \o <<x>> \o
                         [i \in 1..(cap - ps.len - 1) |-> ZeroParam],
              len    |-> ps.len + 1,
              shared |-> FALSE]

\* ps = append(ps, x) in node.lookup: an append in place writes the array
\* behind po.
bind(st, x) ==
    LET ps == appendParam(st.ps, x)
    IN  [st EXCEPT !.ps = ps, !.mem = IF ps.shared THEN ps.arr ELSE @]

\* lookupStart with line 181 left out: ps starts as po, not as po[0:0].
lookupStart_KeepsPo(po, path) ==
    [nd |-> Root, path |-> path, prev |-> Nil, pn |-> Nil, pp |-> "", cn |-> Nil, cp |-> "",
     ps |-> [arr |-> po.arr, len |-> po.len, shared |-> TRUE], mem |-> po.arr]

\* The local variables of node.lookup(path, po) when the loop is entered;
\* ps = po[0:0] with the array of po.
lookupStart(po, path) ==
    [nd |-> Root, path |-> path, prev |-> Nil, pn |-> Nil, pp |-> "", cn |-> Nil, cp |-> "",
     ps |-> [arr |-> po.arr, len |-> 0, shared |-> TRUE], mem |-> po.arr]

\* An iteration that returns res, and one that goes round the loop again.
Return(st, res) == [done |-> TRUE, st |-> st, res |-> res]

Continue(st) == [done |-> FALSE, st |-> st, res |-> notFound(tsrNone)]

\* A return without handler: h, ps and pat are nil.
fail(r) == [r EXCEPT !.ps = NilParams]

\* One iteration of node.lookup from "// catch-all node" on, and the code
\* after the loop.
iterCatchall(T, st) ==
    IF st.cn # Nil
    THEN LET s1 == bind([st EXCEPT !.path = st.cp],
                        param(T[st.cn].catchall.name, st.cp))
         IN  IF ~T[st.cn].catchall.handler.isSet THEN Return(s1, fail(notFound(tsrNone)))
             ELSE Return(s1, found("catchall", st.cn, s1.ps, T[st.cn].catchall.pattern))
    ELSE IF st.path = "/" /\ T[st.nd].handler.isSet
    THEN Return(st, fail(notFound(tsrWithoutSlash)))
    ELSE Return(st, fail(recommend(T, st.nd, st.path)))

\* iterParam without lines 261-262: the remembered branches are kept when
\* the walk goes on from the continuation node.
iterParam_KeepsBranch(T, st) ==
    LET pn   == st.pn
        elen == Len(T[pn].edge)
        pm   == T[pn].param
        s0   == [st EXCEPT !.path = st.pp]
    IN  IF pn = Nil THEN iterCatchall(T, st)
        ELSE IF ~(\/ elen = 0 /\ pm.start = NUL
                  \/ elen > 0 /\ Byte(T[pn].edge, elen) = pm.start)
        THEN iterCatchall(T, s0)
        ELSE LET i    == scanParam(s0.path, pm.end, 0)
                 s1   == bind(s0, param(pm.name, Upto(s0.path, i)))
                 rest == From(s0.path, i + 1)
                 s2   == [s1 EXCEPT !.path = rest]
             IN  IF rest = ""
                 THEN IF pm.handler.isSet THEN Return(s2, found("param", pn, s2.ps, pm.pattern))
                      ELSE Return(s2, fail(recommend(T, pm.child, rest)))
                 ELSE IF pm.child = Nil
                 THEN IF rest = "/" /\ pm.handler.isSet
                      THEN Return(s2, fail(notFound(tsrWithoutSlash)))
                      ELSE Return(s2, fail(notFound(tsrNone)))
                 ELSE Continue([s2 EXCEPT !.prev = pn, !.nd = pm.child, !.pp = rest])

\* One iteration of node.lookup from "// parameter node" on.
iterParam(T, st) ==
    LET pn   == st.pn
        elen == Len(T[pn].edge)
        pm   == T[pn].param
        s0   == [st EXCEPT !.path = st.pp]
    IN  IF pn = Nil THEN iterCatchall(T, st)
        ELSE IF ~(\/ elen = 0 /\ pm.start = NUL
                  \/ elen > 0 /\ Byte(T[pn].edge, elen) = pm.start)
        THEN iterCatchall(T, s0)
        ELSE LET i    == scanParam(s0.path, pm.end, 0)
                 s1   == bind(s0, param(pm.name, Upto(s0.path, i)))
                 rest == From(s0.path, i + 1)
                 s2   == [s1 EXCEPT !.path = rest]
             IN  IF rest = ""
                 THEN IF pm.handler.isSet THEN Return(s2, found("param", pn, s2.ps, pm.pattern))
                      ELSE Return(s2, fail(recommend(T, pm.child, rest)))
                 ELSE IF pm.child = Nil
                 THEN IF rest = "/" /\ pm.handler.isSet
                      THEN Return(s2, fail(notFound(tsrWithoutSlash)))
                      ELSE Return(s2, fail(notFound(tsrNone)))
                 ELSE Continue([s2 EXCEPT !.prev = pn, !.nd = pm.child,
                                          !.pn = Nil, !.cn = Nil])

\* One iteration of the loop of node.lookup on the local variables st.
lookupIter(T, st) ==
    LET nd   == st.nd
        path == st.path
    IN  IF path = "" \/ path = T[nd].edge
        THEN IF T[nd].handler.isSet
             THEN Return(st, found("node", nd, st.ps, T[nd].pattern))
             ELSE IF T[nd].edge = "/" /\ st.prev # Nil /\ T[st.prev].handler.isSet
             THEN Return(st, fail(notFound(tsrWithoutSlash)))
             ELSE Return(st, fail(recommend(T, nd, path)))
        ELSE LET hasC == T[nd].catchall.nonnil
                 hasP == T[nd].param.nonnil
                 s1   == [st EXCEPT
                             !.pn = IF hasP THEN nd ELSE IF hasC THEN Nil ELSE @,
                             !.pp = IF hasP THEN path ELSE @,
                             !.cn = IF hasP THEN Nil ELSE IF hasC THEN nd ELSE @,
                             !.cp = IF hasC THEN path ELSE @]
                 I    == {i \in 1..Len(T[nd].indices) : Byte(T[nd].indices, i) = Byte(path, 1)}
                 n    == T[nd].children[CHOOSE i \in I : \A j \in I : i <= j]
             IN  IF I # {} /\ HasPrefix(path, T[n].edge)
                 THEN Continue([s1 EXCEPT !.path = From(path, Len(T[n].edge) + 1),
                                          !.prev = nd, !.nd = n])
                 ELSE iterParam(T, s1)

-----------------------------------------------------------------------------
(* The Routers that serve, each built by Handle calls that returned and    *)
(* left alone afterwards, with the requests made of it.                    *)
(*   params:    bindings of different lengths through one pooled context;  *)
(*   hostwalk:  a host-qualified walk that binds and then fails;           *)
(*   fallback:  a parameter branch remembered above the static descent,    *)
(*              and a parameter that captures the empty string;            *)
(*   rewind:    a catch-all remembered above the static descent;           *)
(*   authority: the request Router.handler panics on.                      *)
ServeNames == {"params", "hostwalk", "fallback", "rewind", "authority"}

ServeRoutes(s) ==
    CASE s = "params"    -> <<"/{x}/{y}", "/{x}", "/a">>
      [] s = "hostwalk"  -> <<"{s}.h/a", "/{x}">>
      [] s = "fallback"  -> <<"/a", "/ab", "/{x}/b">>
      [] s = "rewind"    -> <<"/a/*c", "/a/b", "/a/c">>
      [] s = "authority" -> <<"h">>

ServeHosts(s) ==
    CASE s = "hostwalk"  -> {"a.h", "h"}
      [] s = "authority" -> {"h", "h/"}
      [] OTHER           -> {""}

ServePaths(s) ==
    CASE s = "params"    -> {"/a", "/b", "/a/b", "/b/"}
      [] s = "hostwalk"  -> {"/a", "/b"}
      [] s = "fallback"  -> {"/abd/b", "//b", "//c", "/ab"}
      [] s = "rewind"    -> {"/a/bc", "/a/b", "/a/"}
      [] s = "authority" -> {"", "/"}

\* The Handle calls that build the Router of s.
ServeCalls(s) ==
    [i \in 1..Len(ServeRoutes(s)) |->
        <<"GET", ServeRoutes(s)[i], HandlerFor("GET", ServeRoutes(s)[i])>>]

ServeInit ==
    \E s \in ServeNames :
        LET R == Build(<<newNode("", 0)>>, FALSE, ServeCalls(s), 1)
            last == ServeCalls(s)[Len(ServeCalls(s))]
        IN  /\ R.ok
            /\ nodes = R.nodes
            /\ hosts = R.hosts
            /\ handle404 = DefaultNotFound
            /\ resp = [op |-> "Handle", method |-> last[1], pattern |-> last[2], h |-> last[3],
                       panic |-> "", err |-> NoErr]
            /\ registered = Range(ServeCalls(s))
            /\ pool = s
            /\ calls = Len(ServeCalls(s))
            /\ params = << >>
            /\ ctxs = << >>
            /\ ctxpool = {}
            /\ reqs = [r \in Requests |-> NoRequest]

\* The variables of the Router proper, which serving leaves alone.
routerVars == <<nodes, hosts, handle404, resp, registered, pool, calls, params>>

\* ServeHTTP, lines 45-51: a request with RequestURI "*" is answered 400
\* without a context.
BadRequest(r) ==
    /\ reqs[r].pc = "idle"
    /\ reqs' = [reqs EXCEPT ![r] = [pc |-> "done", code |-> 400]]
    /\ UNCHANGED <<routerVars, ctxs, ctxpool>>

\* ServeHTTP, lines 54-55 and the entry of r.handler: ctxpool.Get hands out
\* a pooled context, which leaves the pool, or a new one made by New (the
\* pool may be empty or may have dropped its contexts); po = c.Params; the
\* first walk is entered.
Get(r, host, path) ==
    /\ reqs[r].pc = "idle"
    /\ \E c \in ctxpool \cup {Len(ctxs) + 1} :
          LET new == c \notin ctxpool
              po  == IF new THEN NilParams ELSE ctxs[c]
          IN  /\ ctxs' = IF new THEN Append(ctxs, NilParams) ELSE ctxs
              /\ ctxpool' = ctxpool \ {c}
              /\ reqs' = [reqs EXCEPT ![r] =
                            [pc |-> "walk", host |-> host, path |-> path, c |-> c, po |-> po,
                             hostwalk |-> hosts,
                             st |-> lookupStart(po, IF hosts THEN host \o path ELSE path)]]
    /\ UNCHANGED routerVars

\* Iterate on a self-adjusting trie: an iteration also moves the last child
\* of the node it stands on to the front of the node's child list.
Iterate_Adjusts(r) ==
    /\ reqs[r].pc = "walk"
    /\ LET q  == reqs[r]
           it == lookupIter(nodes, q.st)
           nd == nodes[q.st.nd]
           k  == Len(nd.children)
       IN  /\ ctxs' = [ctxs EXCEPT ![q.c].arr = it.st.mem]
           /\ nodes' = IF k < 2 THEN nodes
                       ELSE [nodes EXCEPT
                                ![q.st.nd].children = <<nd.children[k]>> \o SubSeq(nd.children, 1, k - 1),
                                ![q.st.nd].indices = Byte(nd.indices, k) \o Upto(nd.indices, k - 1)]
           /\ reqs' = [reqs EXCEPT ![r] =
                 IF ~it.done THEN [q EXCEPT !.st = it.st]
                 ELSE IF q.hostwalk /\ it.res.h = NilH /\ it.res.redir = tsrNone
                 THEN [q EXCEPT !.hostwalk = FALSE,
                                !.st = lookupStart([q.po EXCEPT !.arr = it.st.mem], q.path)]
                 ELSE [pc |-> "found", host |-> q.host, path |-> q.path, c |-> q.c,
                       res |-> it.res]]
    /\ UNCHANGED <<hosts, handle404, resp, registered, pool, calls, params, ctxpool>>

\* One iteration of the loop of node.lookup made for request r.  When the
\* walk returns: r.handler's second walk is entered (lines 92-94), or the
\* result is r.handler's.
Iterate(r) ==
    /\ reqs[r].pc = "walk"
    /\ LET q  == reqs[r]
           it == lookupIter(nodes, q.st)
       IN  /\ ctxs' = [ctxs EXCEPT ![q.c].arr = it.st.mem]
           /\ reqs' = [reqs EXCEPT ![r] =
                 IF ~it.done THEN [q EXCEPT !.st = it.st]
                 ELSE IF q.hostwalk /\ it.res.h = NilH /\ it.res.redir = tsrNone
                 THEN [q EXCEPT !.hostwalk = FALSE,
                                !.st = lookupStart([q.po EXCEPT !.arr = it.st.mem], q.path)]
                 ELSE [pc |-> "found", host |-> q.host, path |-> q.path, c |-> q.c,
                       res |-> it.res]]
    /\ UNCHANGED <<routerVars, ctxpool>>

\* r.handler, lines 95-105, and ServeHTTP, line 59: the handler is chosen
\* and c.Params = ps.  r.handler panics on the empty path with the hint
\* tsrWithoutSlash; the context is then neither written nor put back.
Assign(r) ==
    /\ reqs[r].pc = "found"
    /\ LET q == reqs[r]
       IN  IF q.res.h = NilH /\ q.res.redir = tsrWithoutSlash /\ q.path = ""
           THEN /\ reqs' = [reqs EXCEPT ![r] = [pc |-> "panicked", host |-> q.host,
                                                path |-> q.path, c |-> q.c]]
                /\ UNCHANGED ctxs
           ELSE /\ ctxs' = [ctxs EXCEPT ![q.c] = [arr |-> q.res.ps.arr, len |-> q.res.ps.len]]
                /\ reqs' = [reqs EXCEPT ![r] = [q EXCEPT !.pc = "serve"]]
    /\ UNCHANGED <<routerVars, ctxpool>>

\* ServeHTTP, line 60: h.ServeHTTP(c, w, req); the handler reads the Params
\* of its context (GetParams(c), which is c.Params).
Serve(r) ==
    /\ reqs[r].pc = "serve"
    /\ reqs' = [reqs EXCEPT ![r] = [pc |-> "put", host |-> reqs[r].host, path |-> reqs[r].path,
                                    c |-> reqs[r].c, res |-> reqs[r].res,
                                    seen |-> elems(ctxs[reqs[r].c])]]
    /\ UNCHANGED <<routerVars, ctxs, ctxpool>>

\* ServeHTTP, line 62: ctxpool.Put(c).
Put(r) ==
    /\ reqs[r].pc = "put"
    /\ ctxpool' = ctxpool \cup {reqs[r].c}
    /\ reqs' = [reqs EXCEPT ![r] = [pc |-> "done", code |-> 0, host |-> reqs[r].host,
                                    path |-> reqs[r].path, res |-> reqs[r].res,
                                    seen |-> reqs[r].seen]]
    /\ UNCHANGED <<routerVars, ctxs>>

ServeNext ==
    \E r \in Requests :
        \/ BadRequest(r)
        \/ \E host \in ServeHosts(pool), path \in ServePaths(pool) : Get(r, host, path)
        \/ Iterate(r)
        \/ Assign(r)
        \/ Serve(r)
        \/ Put(r)

ServeSpec == ServeInit /\ [][ServeNext]_vars

-----------------------------------------------------------------------------
\* The result of the walks Router.handler makes for (host, path) when they
\* are made alone, each in one piece.
Alone(T, hostAware, host, path) ==
    LET r0 == IF hostAware THEN lookup(T, host \o path) ELSE notFound(tsrNone)
    IN  IF r0.h = NilH /\ r0.redir = tsrNone THEN lookup(T, path) ELSE r0

\* Result res of a walk made step by step is the result a.
SameResult(res, a) ==
    /\ res.h = a.h
    /\ elems(res.ps) = a.ps
    /\ res.pat = a.pat
    /\ res.redir = a.redir

(* C21: lookup is read-only.  No iteration of a walk changes the trie (its *)
(* nodes, edges, index strings, branches and method tables), the host-     *)
(* aware flag or the not-found handler, and a walk made step by step while *)
(* the walks of other requests are under way returns what the same walk    *)
(* returns when made alone.                                                *)
C21_LookupReadOnly ==
    [][\A r \in Requests :
          (reqs[r].pc = "walk" /\ reqs'[r] # reqs[r]) =>
              /\ nodes' = nodes
              /\ hosts' = hosts
              /\ handle404' = handle404
              /\ reqs'[r].pc = "found" =>
                     SameResult(reqs'[r].res,
                                Alone(nodes, hosts, reqs[r].host, reqs[r].path))]_vars

\* A walk that returned a handler and bindings while the walk of the other
\* request was under way below the root.
C21_Witness ==
    /\ reqs["r1"].pc = "found"
    /\ reqs["r1"].res.h # NilH
    /\ reqs["r1"].res.ps.len > 0
    /\ reqs["r2"].pc = "walk"
    /\ reqs["r2"].st.nd # Root

-----------------------------------------------------------------------------
\* The requests that hold a context: between ctxpool.Get and ctxpool.Put.
Holding == {r \in Requests : reqs[r].pc \in {"walk", "found", "serve", "put"}}

\* The requests whose handler has run.
Served == {r \in Requests : reqs[r].pc = "put" \/ (reqs[r].pc = "done" /\ reqs[r].code = 0)}

(* C29: per-request parameter isolation with the pooled context.  In every *)
(* interleaving of ServeHTTP calls, the Params the handler of a request    *)
(* reads from its context are exactly the bindings of the request's own    *)
(* lookup (those Router.Handler returns for the request), no two requests  *)
(* hold the same context at the same time, and a context that is held is   *)
(* not in the pool.                                                        *)
C29_ParamsIsolation ==
    /\ \A r \in Served :
           reqs[r].seen = Alone(nodes, hosts, reqs[r].host, reqs[r].path).ps
    /\ \A r1, r2 \in Holding : reqs[r1].c = reqs[r2].c => r1 = r2
    /\ \A r \in Holding : reqs[r].c \notin ctxpool

\* The handler of a request has read one binding from the only context
\* made, which an earlier request had left with two: the second is still in
\* the array, beyond the length of c.Params.
C29_Witness ==
    /\ reqs["r1"].pc = "done"
    /\ reqs["r1"].code = 0
    /\ Len(reqs["r1"].seen) = 2
    /\ reqs["r2"].pc = "put"
    /\ Len(reqs["r2"].seen) = 1
    /\ Len(ctxs) = 1
    /\ ctxs[1].len = 1
    /\ Len(ctxs[1].arr) = 2
    /\ ctxs[1].arr[2] # ZeroParam

-----------------------------------------------------------------------------
\* The depth of node n in trie T: the root is at 0, a child and the
\* continuation node of a parameter branch one below their node.
RECURSIVE Depth(_, _)
Depth(T, n) ==
    IF n = Root THEN 0
    ELSE LET p == CHOOSE q \in ParentsOf(T, n) : TRUE
         IN  Depth(T, p[1]) + 1

\* The nodes of the subtree of n, n included.
RECURSIVE Below(_, _)
Below(T, n) ==
    {n} \cup UNION {Below(T, k) : k \in Range(T[n].children) \cup
                                      (IF T[n].param.child # Nil THEN {T[n].param.child} ELSE {})}

\* Request r made an iteration of its walk that went round the loop again.
Looped(r) ==
    /\ reqs[r].pc = "walk"
    /\ reqs'[r].pc = "walk"
    /\ reqs'[r] # reqs[r]
    /\ reqs'[r].hostwalk = reqs[r].hostwalk

(* C22, as worded: every iteration of the traversal loop returns or moves  *)
(* strictly deeper in the trie.                                            *)
C22_StrictlyDeeper ==
    [][\A r \in Requests :
          Looped(r) => Depth(nodes, reqs'[r].st.nd) > Depth(nodes, reqs[r].st.nd)]_vars

\* The node the walk is confined below: the node of the remembered
\* parameter branch, or the node the walk stands on.
Anchor(st) == IF st.pn # Nil THEN st.pn ELSE st.nd

\* Rank a is below rank b: fewer nodes below the anchor, or as many and a
\* shorter remaining input.
RankLess(T, a, b) ==
    LET na == Cardinality(Below(T, Anchor(a)))
        nb == Cardinality(Below(T, Anchor(b)))
    IN  na < nb \/ (na = nb /\ Len(a.path) < Len(b.path))

\* What an iteration that goes round the loop again does: a static step,
\* to a child of the node, consuming the child's edge, at least one byte;
\* or a parameter step, to the continuation node of the branch remembered
\* at the node or above it, which forgets the remembered branches and may
\* consume nothing.  Either way the rank of the walk decreases.
Progress(T, a, b) ==
    /\ \/ /\ b.nd \in Range(T[a.nd].children)
          /\ T[b.nd].edge # ""
          /\ a.path = T[b.nd].edge \o b.path
       \/ /\ \E pn \in {a.pn, a.nd} :
                /\ pn # Nil
                /\ T[pn].param.nonnil
                /\ a.nd \in Below(T, pn)
                /\ b.nd = T[pn].param.child
          /\ b.pn = Nil
          /\ b.cn = Nil
    /\ RankLess(T, b, a)

\* Each ServeHTTP call keeps running: its goroutine is not blocked in a
\* walk, so an iteration that can be made is made.
ServeFairSpec == ServeSpec /\ \A r \in Requests : WF_vars(Iterate(r))

(* C22: lookup terminates.  Every walk that is under way returns, and every *)
(* iteration that does not return either takes a static step to a child of *)
(* the node, consuming at least one byte, or goes to the continuation node *)
(* of the remembered parameter branch and forgets the remembered branches, *)
(* also when the parameter captured the empty string; each such iteration  *)
(* decreases the rank of the walk (the number of nodes below the           *)
(* remembered branch or the node, then the length of the remaining input). *)
C22_LookupTerminates ==
    /\ [][\A r \in Requests :
             Looped(r) => Progress(nodes, reqs[r].st, reqs'[r].st)]_vars
    /\ \A r \in Requests : (reqs[r].pc = "walk") ~> (reqs[r].pc # "walk")

\* A walk went on from the continuation node of a parameter that captured
\* the empty string, and returned.
C22_Witness ==
    /\ reqs["r1"].pc = "found"
    /\ reqs["r1"].path = "//b"
    /\ reqs["r1"].res.h # NilH
    /\ elems(reqs["r1"].res.ps) = <<param("x", "")>>

=============================================================================
